---- MODULE Spec2Model ----
\* A model of the computer-control framework's core: the ActionExecutor
\* (src/core/base.py), the RetryExecutor (src/core/retry.py) and the agent
\* loops ComputerAgent (src/ai_interface.py) and AsyncComputerAgent
\* (src/async_agent.py).
\*
\* The specifications share the variables below:
\*   SpecExec   ActionExecutor.set_elements / execute over actions and
\*              controller behaviours;
\*   SpecRetry  RetryExecutor.execute_with_retry / reset_stats over the
\*              outcomes of the wrapped executor;
\*   SpecAgent  the sync and the async agent loop (FairSpecAgent adds the
\*              fairness of a brain and a controller that always return);
\*   SpecPoint  the conversions of one Point (src/core/types.py) and its
\*              resolution;
\*   SpecBackoff  calls of one backoff strategy (src/core/retry.py);
\*   SpecDeco   calls of a function wrapped by the retry decorator
\*              (src/core/retry.py);
\*   SpecCapture  capture_screen_state of the agents, on a screen that other
\*              programs draw on (src/ai_interface.py, src/core/base.py).
EXTENDS Integers, Sequences, FiniteSets, TLC

VARIABLES
    \* ---- ActionExecutor (base.py) ----
    current_elements,   \* ActionExecutor._current_elements
    x_action,           \* the Action of the last execute() call
    x_ctl,              \* the controller behaviour during that call
    x_calls,            \* mouse/keyboard primitives invoked by that call
    x_result,           \* the ActionResult it returned
    x_pc,               \* "idle" before the first call, then "returned"
    \* ---- RetryExecutor (retry.py) ----
    config,             \* RetryExecutor.config (fixed at construction)
    total_attempts,     \* RetryExecutor._total_attempts
    successful_attempts,\* RetryExecutor._successful_attempts
    failed_attempts,    \* RetryExecutor._failed_attempts
    retry_count,        \* RetryExecutor._retry_count
    attempt,            \* loop variable of execute_with_retry
    last_error,         \* local last_error of execute_with_retry
    r_pc,               \* "idle" | "loop" | "returned"
    r_result,           \* the ActionResult execute_with_retry returned
    r_invocations,      \* executor.execute invocations made by this call
    r_failures,         \* how many of them failed
    r_last_outcome,     \* what the last invocation did
    r_events,           \* what this call did besides invoking the executor, in order
    r_calls,            \* execute_with_retry calls started so far
    r_since,            \* executor invocations and calls counted since the last reset
    \* ---- agent loop (ai_interface.py, async_agent.py) ----
    variant,            \* "sync" (ComputerAgent) | "async" (AsyncComputerAgent)
    max_steps,          \* config.max_steps
    annotate_screenshot,\* config.annotate_screenshot
    pc,                 \* position of run()/step()/capture_screen_state()
    current_step,       \* _current_step
    history,            \* _history
    running,            \* AsyncComputerAgent._running
    cancelled,          \* AsyncComputerAgent._cancelled
    ret,                \* how run() ended: "None" (not yet) | "True" | "False" | "Raised"
    screen_elements,    \* screen_state.elements of the step in flight
    cur_action,         \* local action of step()
    cur_result,         \* local result of step()
    g,                  \* observations of the current run (not program state)
    \* ---- Point conversions (types.py, base.py) ----
    pt_point,           \* the Point the conversions start from
    pt_size,            \* the screen size (screen_width, screen_height)
    pt_value,           \* the value the last conversion produced
    pt_trace,           \* the conversions applied so far, in order
    \* ---- backoff strategies (retry.py) ----
    b_strategy,         \* the strategy a factory returned: its kind and parameters
    b_last,             \* the last call strategy(attempt): index, delay, base delay, draws
    b_prev,             \* the call before it
    b_rng,              \* values drawn so far from the generator of module random
    \* ---- retry decorator (retry.py) ----
    d_config,           \* the arguments of retry(...)
    d_pc,               \* "idle" | "loop" | "returned" | "raised"
    d_attempt,          \* loop variable of wrapper
    d_last_exception,   \* local last_exception of wrapper
    d_out,              \* what the wrapper call came to: a value, or an exception
    d_invocations,      \* invocations of func made by this wrapper call
    d_trace,            \* what func did at each invocation, in order
    d_events,           \* backoff / on_retry / sleep of this wrapper call, in order
    d_calls,            \* wrapper calls started so far
    \* ---- capture_screen_state (ai_interface.py, async_agent.py, base.py) ----
    c_screen,           \* the frame the display shows now
    c_annotate,         \* config.annotate_screenshot
    c_pc,               \* position of capture_screen_state
    c_bytes,            \* local screenshot_bytes
    c_b64,              \* local screenshot_base64
    c_elements,         \* local elements
    c_annotated,        \* local annotated_base64
    c_state,            \* the ScreenState returned
    c_grabs,            \* frames the controller has grabbed during this capture
    c_captures          \* capture_screen_state calls started so far

exec_vars  == <<current_elements, x_action, x_ctl, x_calls, x_result, x_pc>>
retry_vars == <<config, total_attempts, successful_attempts, failed_attempts,
                retry_count, attempt, last_error, r_pc, r_result,
                r_invocations, r_failures, r_last_outcome, r_events, r_calls,
               r_since>>
agent_vars == <<variant, max_steps, annotate_screenshot, pc, current_step, history, running,
                cancelled, ret, screen_elements, cur_action, cur_result, g>>
point_vars == <<pt_point, pt_size, pt_value, pt_trace>>
backoff_vars == <<b_strategy, b_last, b_prev, b_rng>>
deco_vars == <<d_config, d_pc, d_attempt, d_last_exception, d_out, d_invocations,
               d_trace, d_events, d_calls>>
cap_vars == <<c_screen, c_annotate, c_pc, c_bytes, c_b64, c_elements, c_annotated,
              c_state, c_grabs, c_captures>>
vars == <<exec_vars, retry_vars, agent_vars, point_vars, backoff_vars, deco_vars, cap_vars>>

\* ------------------------------------------------------------------
\* Bounds of the model
\* ------------------------------------------------------------------
\* RetryConfig.max_attempts ranges over 1..MaxAttemptsBound
MaxAttemptsBound == 3
\* execute_with_retry calls made on one RetryExecutor
MaxRetryCalls == 2
\* AgentConfig.max_steps ranges over 0..MaxStepsBound
MaxStepsBound == 3
\* run() invocations on one agent
MaxRuns == 2

\* ------------------------------------------------------------------
\* Values
\* ------------------------------------------------------------------
\* Python's None where a string is expected (distinct from the empty string)
NoneStr == "<None>"

\* truthiness of an Optional[str]: None and "" are falsy
StrTruthy(s) == s # NoneStr /\ s # ""

\* Point coordinates are floats: a coordinate is kept as its numerator over
\* CoordDen (a power of two, so the float arithmetic below is exact).
CoordDen == 4

\* an int() that rounds down
PyIntFloor(n) == n \div CoordDen

\* int(v) for v = n / CoordDen: Python's int() truncates toward zero
PyInt(n) == IF n >= 0 THEN n \div CoordDen ELSE -((-n) \div CoordDen)

\* types.py CoordinateType
CoordinateType == {"ABSOLUTE", "PERCENTAGE", "ELEMENT_LABEL"}

\* an absent Optional[Point]
NoPoint == [x |-> 0, y |-> 0, ctype |-> "None"]

\* types.py Point(x, y, coordinate_type); x and y are numerators over CoordDen
Point(x, y, t) == [x |-> x, y |-> y, ctype |-> t]

\* a dataclass instance is always truthy: only None is falsy
PointGiven(p) == p.ctype # "None"

\* types.py Rect and Rect.center: ((left+right)/2, (top+bottom)/2), ABSOLUTE
Rect(l, t, r, b) == [left |-> l, top |-> t, right |-> r, bottom |-> b]

\* a centre that is the rectangle's top-left corner
center_top_left(rect) == Point(rect.left * CoordDen, rect.top * CoordDen, "ABSOLUTE")

center(rect) ==
    Point(((rect.left + rect.right) * CoordDen) \div 2,
          ((rect.top + rect.bottom) * CoordDen) \div 2, "ABSOLUTE")

\* types.py ScreenElement (label, rect)
ScreenElement(label, rect) == [label |-> label, rect |-> rect]

\* types.py ActionType
MouseTypes == {"mouse_move", "click", "double_click", "right_click", "drag", "scroll"}
KeyTypes == {"type_text", "key_press", "key_down", "key_up", "hotkey"}
ActionType == MouseTypes \cup KeyTypes \cup
              {"screenshot", "wait", "focus_window", "get_window_info"}

\* types.py Action: the fields the executor reads
Action(t, coordinate, element_label, text, keys, end_coordinate, end_element_label) ==
    [action_type |-> t, coordinate |-> coordinate, element_label |-> element_label,
     text |-> text, keys |-> keys, end_coordinate |-> end_coordinate,
     end_element_label |-> end_element_label,
     scroll_amount |-> 3, scroll_direction |-> "down", button |-> "left"]

\* no Action (None)
NoAction == [action_type |-> "None"]

\* types.py ActionResult: success, message, error
ActionResult(success, message, error) ==
    [success |-> success, message |-> message, error |-> error]

NoResult == [success |-> FALSE, message |-> [text |-> "<no result>"], error |-> NoneStr]

\* exception types and their base classes (isinstance follows the bases)
ExcTypes == {"Exception", "ValueError", "OSError", "TimeoutError"}

Bases(t) ==
    CASE t = "Exception"    -> {"Exception"}
      [] t = "ValueError"   -> {"ValueError", "Exception"}
      [] t = "OSError"      -> {"OSError", "Exception"}
      [] t = "TimeoutError" -> {"TimeoutError", "OSError", "Exception"}

isinstance(e, t) == t \in Bases(e.type)

Exc(t, msg) == [type |-> t, msg |-> msg]

NoExc == [type |-> "NoExc", msg |-> ""]

\* ------------------------------------------------------------------
\* ComputerController (base.py): the behaviour of the injected controller
\* ------------------------------------------------------------------
\* methods of the controller that execute() can reach. Each is one call that
\* returns or raises: mouse_drag and hotkey have default bodies built from
\* the other primitives, and a subclass may override them
QueryMethods == {"get_screen_size", "get_mouse_position"}
PrimitiveMethods == {"mouse_move", "mouse_click", "mouse_drag", "mouse_scroll",
                     "type_text", "key_press", "key_down", "key_up", "hotkey", "wait"}

\* a controller: its screen size, its pointer position, and the one method
\* (or "none") that raises exc whenever it is called
Controller(screen, mouse, faulty, exc) ==
    [screen |-> screen, mouse |-> mouse, faulty |-> faulty, exc |-> exc]

Size(w, h) == [width |-> w, height |-> h]

\* outcome of resolve_point: a position <<x, y>> or a raised exception
Resolved(x, y) == [pos |-> <<x, y>>, exc |-> NoExc]
Raised(e) == [pos |-> <<>>, exc |-> e]

\* index of the first element carrying the label (0 when none does)
FirstWithLabel(elements, label) ==
    IF \E i \in DOMAIN elements : elements[i].label = label
    THEN CHOOSE i \in DOMAIN elements :
            /\ elements[i].label = label
            /\ \A j \in DOMAIN elements : elements[j].label = label => i <= j
    ELSE 0

\* a resolve_point that reads the x, y of a Point of any coordinate type
resolve_point_any_type(ctl, point, element_label, elements) ==
    IF ctl.faulty = "get_screen_size" THEN Raised(ctl.exc)
    ELSE IF StrTruthy(element_label) /\ elements # <<>> THEN
        LET i == FirstWithLabel(elements, element_label) IN
        IF i # 0
        THEN Resolved(PyInt(center(elements[i].rect).x), PyInt(center(elements[i].rect).y))
        ELSE Raised(Exc("ValueError", "Element with label not found"))
    ELSE IF PointGiven(point) THEN
        CASE point.ctype = "PERCENTAGE" ->
                Resolved(PyInt(point.x * ctl.screen.width), PyInt(point.y * ctl.screen.height))
          [] OTHER -> Resolved(PyInt(point.x), PyInt(point.y))
    ELSE IF ctl.faulty = "get_mouse_position" THEN Raised(ctl.exc)
    ELSE Resolved(PyInt(ctl.mouse.x), PyInt(ctl.mouse.y))

\* base.py ComputerController.resolve_point
resolve_point(ctl, point, element_label, elements) ==
    IF ctl.faulty = "get_screen_size" THEN Raised(ctl.exc)
    ELSE IF StrTruthy(element_label) /\ elements # <<>> THEN
        LET i == FirstWithLabel(elements, element_label) IN
        IF i # 0
        THEN Resolved(PyInt(center(elements[i].rect).x), PyInt(center(elements[i].rect).y))
        ELSE Raised(Exc("ValueError", "Element with label not found"))
    ELSE IF PointGiven(point) THEN
        CASE point.ctype = "ABSOLUTE" -> Resolved(PyInt(point.x), PyInt(point.y))
          [] point.ctype = "PERCENTAGE" ->
                Resolved(PyInt(point.x * ctl.screen.width), PyInt(point.y * ctl.screen.height))
          [] OTHER -> Raised(Exc("ValueError", "Point with ELEMENT_LABEL type requires elements list"))
    ELSE IF ctl.faulty = "get_mouse_position" THEN Raised(ctl.exc)
    ELSE Resolved(PyInt(ctl.mouse.x), PyInt(ctl.mouse.y))

\* ------------------------------------------------------------------
\* ActionExecutor (base.py)
\* ------------------------------------------------------------------
\* progress of _execute_action: the primitives invoked so far and the
\* exception that ended it (NoExc while it runs)
Running(calls) == [calls |-> calls, exc |-> NoExc]

\* one call of a controller primitive: it is invoked, and raises if faulty
Invoke(ctl, st, call) ==
    IF st.exc # NoExc THEN st
    ELSE [calls |-> Append(st.calls, call),
          exc |-> IF ctl.faulty = call.op THEN ctl.exc ELSE NoExc]

\* for key in action.keys: self.controller.key_press(key)
RECURSIVE PressAll(_, _, _)
PressAll(ctl, st, keys) ==
    IF keys = <<>> THEN st
    ELSE PressAll(ctl, Invoke(ctl, st, [op |-> "key_press", key |-> Head(keys)]), Tail(keys))

\* action.text or action.keys[0] if action.keys else ""
KeyArgument(action) ==
    IF action.keys # <<>>
    THEN (IF StrTruthy(action.text) THEN action.text ELSE action.keys[1])
    ELSE ""

\* the dispatch of _execute_action on action_type, at position pos
Dispatch(ctl, action, elements, pos) ==
    LET t == action.action_type
        st == Running(<<>>) IN
    CASE t = "mouse_move" -> Invoke(ctl, st, [op |-> "mouse_move", pos |-> pos])
      [] t = "click" ->
            Invoke(ctl, st, [op |-> "mouse_click", pos |-> pos, button |-> action.button, clicks |-> 1])
      [] t = "double_click" ->
            Invoke(ctl, st, [op |-> "mouse_click", pos |-> pos, button |-> action.button, clicks |-> 2])
      [] t = "right_click" ->
            Invoke(ctl, st, [op |-> "mouse_click", pos |-> pos, button |-> "right", clicks |-> 1])
      [] t = "drag" ->
            LET e == resolve_point(ctl, action.end_coordinate, action.end_element_label, elements) IN
            IF e.exc # NoExc THEN [calls |-> <<>>, exc |-> e.exc]
            ELSE Invoke(ctl, st, [op |-> "mouse_drag", pos |-> pos, end |-> e.pos])
      [] t = "scroll" ->
            LET amount == IF action.scroll_direction \in {"down", "left"}
                          THEN -action.scroll_amount ELSE action.scroll_amount
                horizontal == action.scroll_direction \in {"left", "right"} IN
            Invoke(ctl, st, [op |-> "mouse_scroll", amount |-> amount, pos |-> pos,
                             horizontal |-> horizontal])
      [] t = "type_text" ->
            Invoke(ctl, st, [op |-> "type_text",
                             text |-> IF StrTruthy(action.text) THEN action.text ELSE ""])
      [] t = "key_press" ->
            IF action.keys # <<>> THEN PressAll(ctl, st, action.keys)
            ELSE IF StrTruthy(action.text)
                 THEN Invoke(ctl, st, [op |-> "key_press", key |-> action.text])
                 ELSE st
      [] t = "key_down" -> Invoke(ctl, st, [op |-> "key_down", key |-> KeyArgument(action)])
      [] t = "key_up" -> Invoke(ctl, st, [op |-> "key_up", key |-> KeyArgument(action)])
      [] t = "hotkey" ->
            IF action.keys # <<>> THEN Invoke(ctl, st, [op |-> "hotkey", keys |-> action.keys])
            ELSE st
      [] t = "wait" -> Invoke(ctl, st, [op |-> "wait"])
      [] t = "screenshot" -> st
      [] OTHER -> [calls |-> <<>>, exc |-> Exc("ValueError", "Unknown action type")]

\* base.py ActionExecutor._execute_action
execute_action(ctl, action, elements) ==
    IF PointGiven(action.coordinate) \/ StrTruthy(action.element_label)
    THEN LET r == resolve_point(ctl, action.coordinate, action.element_label, elements) IN
         IF r.exc # NoExc THEN [calls |-> <<>>, exc |-> r.exc]
         ELSE Dispatch(ctl, action, elements, r.pos)
    ELSE Dispatch(ctl, action, elements, <<>>)

\* the two results execute() builds
SuccessResult(action) ==
    ActionResult(TRUE, [text |-> "executed successfully", of |-> action.action_type], NoneStr)
FailedResult(action, e) ==
    ActionResult(FALSE, [text |-> "failed", of |-> action.action_type], e.msg)

\* execute() without its try/except: whatever _execute_action raises escapes
execute_uncaught(ctl, action, elements) ==
    LET st == execute_action(ctl, action, elements) IN
    [calls |-> st.calls,
     threw |-> st.exc # NoExc,
     result |-> IF st.exc # NoExc THEN NoResult ELSE SuccessResult(action)]

\* base.py ActionExecutor.execute: the result, the primitives invoked, and
\* whether an exception escaped. The success result is built inside the try
\* block and queries controller.get_screen_size(); every Exception raised in
\* the try block is turned into a failed result. action.action_type.value is
\* read in the try block and again in the except handler, so an action_type
\* that is no ActionType member makes the handler itself raise.
execute(ctl, action, elements) ==
    IF action.action_type \notin ActionType
    THEN [calls |-> <<>>, threw |-> TRUE, result |-> NoResult]
    ELSE LET st == execute_action(ctl, action, elements) IN
         [calls |-> st.calls,
          threw |-> FALSE,
          result |-> IF st.exc # NoExc THEN FailedResult(action, st.exc)
                     ELSE IF ctl.faulty = "get_screen_size" THEN FailedResult(action, ctl.exc)
                     ELSE SuccessResult(action)]

\* ------------------------------------------------------------------
\* SpecExec: one ActionExecutor, one execute() call
\* ------------------------------------------------------------------
E0 == ScreenElement("~0", Rect(0, 0, 2, 2))
E1 == ScreenElement("~1", Rect(1, 1, 4, 6))

\* element lists a detector may publish
ElementLists == {<<>>, <<E0, E1>>}

\* integer rectangles with right >= left and bottom >= top: the one of
\* test_resolve_element_label, odd and even sums, negative coordinates, a
\* degenerate rectangle
SomeRects ==
    {Rect(100, 100, 200, 200), Rect(-3, -3, 0, 2), Rect(0, 0, 1, 1),
     Rect(-4, -2, -1, -1), Rect(2, 2, 2, 2)}

\* the element lists set_elements is called with
ExecElementLists == ElementLists \cup {<<ScreenElement("~1", r)>> : r \in SomeRects}

\* coordinates an Action may carry (numerators over CoordDen)
SomePoints == {Point(10, 6, "ABSOLUTE"), Point(2, 1, "PERCENTAGE"), Point(0, 0, "ELEMENT_LABEL")}
SomeLabels == {NoneStr, "", "~1", "~9"}
SomeTexts == {NoneStr, "", "a"}
SomeKeys == {<<>>, <<"ctrl", "c">>}

\* the actions execute() is called with; "bogus" is a type tag outside ActionType
PointerActions ==
    {Action(t, c, l, NoneStr, <<>>, NoPoint, NoneStr) :
        t \in (MouseTypes \ {"drag"}) \cup {"screenshot", "wait", "focus_window",
                                             "get_window_info", "bogus"},
        c \in SomePoints \cup {NoPoint}, l \in SomeLabels}
DragActions ==
    {Action("drag", c, l, NoneStr, <<>>, ec, el) :
        c \in SomePoints \cup {NoPoint}, l \in SomeLabels,
        ec \in SomePoints \cup {NoPoint}, el \in {NoneStr, "~0"}}
KeyActions ==
    {Action(t, c, NoneStr, tx, ks, NoPoint, NoneStr) :
        t \in KeyTypes, c \in {NoPoint, Point(10, 6, "ABSOLUTE")},
        tx \in SomeTexts, ks \in SomeKeys}
ExecActions == PointerActions \cup DragActions \cup KeyActions

\* the controllers: healthy, or with one method raising
TheScreen == Size(8, 6)
TheMouse == Point(12, 20, "ABSOLUTE")
HealthyController == Controller(TheScreen, TheMouse, "none", NoExc)
FaultyControllers ==
    {Controller(TheScreen, TheMouse, m, Exc("OSError", "device busy")) :
        m \in QueryMethods \cup PrimitiveMethods}
Controllers == {HealthyController} \cup FaultyControllers

RetryIdle ==
    /\ config = [max_attempts |-> 1, retryable_exceptions |-> {"Exception"},
                 non_retryable_exceptions |-> {}, callbacks |-> FALSE]
    /\ total_attempts = 0 /\ successful_attempts = 0
    /\ failed_attempts = 0 /\ retry_count = 0
    /\ attempt = 0 /\ last_error = NoExc /\ r_pc = "idle" /\ r_result = NoResult
    /\ r_invocations = 0 /\ r_failures = 0 /\ r_last_outcome = [kind |-> "none"]
    /\ r_events = <<>> /\ r_calls = 0
    /\ r_since = [invocations |-> 0, calls |-> 0]

\* what is observed of one run() (the n-th on this agent): how often the
\* brain and the executor were invoked, what execute() produced, what the
\* brain last answered, when cancel() was called, which collaborator's
\* exception left run(), the steps whose think timed out and is still
\* running in its worker thread, what think and should_continue answered in
\* order, and how the run before this one on the same agent had ended
FreshRun(n) ==
    [runs |-> n, thinks |-> 0, execs |-> 0, callbacks |-> 0, conts |-> 0,
     executed |-> <<>>, last_think |-> "none", last_cont |-> "none",
     all_actions |-> TRUE, all_continue |-> TRUE,
     cancel_called |-> FALSE, cancel_early |-> FALSE, cancel_step |-> 0,
     thinks_after_cancel |-> 0, step_attempts |-> 0,
     raised |-> "none", detached |-> {},
     decisions |-> <<>>, answers |-> <<>>, earlier |-> "first run"]

NoObservations == FreshRun(0)

\* how the run that is over ended: cancelled, at the step limit, or
\* completed (it returned True, or an exception left it)
HowEnded ==
    IF pc = "idle" THEN "first run"
    ELSE IF g.cancel_called THEN "cancelled"
    ELSE IF ret = "False" THEN "step limit"
    ELSE "completed"

AgentIdle ==
    /\ variant = "sync" /\ max_steps = 0 /\ annotate_screenshot = TRUE
    /\ pc = "idle" /\ current_step = 0
    /\ history = <<>> /\ running = FALSE /\ cancelled = FALSE /\ ret = "None"
    /\ screen_elements = <<>> /\ cur_action = NoAction /\ cur_result = NoResult
    /\ g = NoObservations

ExecIdle ==
    /\ current_elements = <<>> /\ x_action = NoAction /\ x_ctl = HealthyController
    /\ x_calls = <<>> /\ x_result = NoResult /\ x_pc = "idle"

PointIdle ==
    /\ pt_point = NoPoint /\ pt_size = TheScreen
    /\ pt_value = [kind |-> "none"] /\ pt_trace = <<>>

\* no call of a strategy has been made
NoCall == [attempt |-> -1, delay |-> [n |-> 0, d |-> 1], base |-> [n |-> 0, d |-> 1],
           draws |-> 0]

BackoffIdle ==
    /\ b_strategy = [kind |-> "constant", delay |-> [n |-> 1, d |-> 10]]
    /\ b_last = NoCall /\ b_prev = NoCall /\ b_rng = 0

\* the wrapper has produced nothing
NoOutput == [kind |-> "none"]

DecoIdle ==
    /\ d_config = [max_attempts |-> 1, retryable_exceptions |-> {"Exception"},
                   on_retry |-> FALSE]
    /\ d_pc = "idle" /\ d_attempt = 0 /\ d_last_exception = NoExc /\ d_out = NoOutput
    /\ d_invocations = 0 /\ d_trace = <<>> /\ d_events = <<>> /\ d_calls = 0

\* nothing captured
NoBytes == [png |-> -1]
NoBase64 == [b64 |-> NoBytes]
NoScreenState == [screenshot_base64 |-> NoBase64, annotated_screenshot_base64 |-> NoBase64,
                  elements |-> <<>>]

CapIdle ==
    /\ c_screen = 0 /\ c_annotate = TRUE /\ c_pc = "idle"
    /\ c_bytes = NoBytes /\ c_b64 = NoBase64 /\ c_elements = <<>>
    /\ c_annotated = NoBase64 /\ c_state = NoScreenState
    /\ c_grabs = <<>> /\ c_captures = 0

\* ActionExecutor.__init__, and the call about to be made
InitExec ==
    /\ current_elements = <<>>
    /\ x_action \in ExecActions
    /\ x_ctl \in Controllers
    /\ x_calls = <<>> /\ x_result = NoResult /\ x_pc = "idle"
    /\ RetryIdle /\ AgentIdle /\ PointIdle /\ BackoffIdle /\ DecoIdle /\ CapIdle

\* base.py ActionExecutor.set_elements
set_elements(elements) ==
    /\ x_pc = "idle"
    /\ current_elements' = elements
    /\ UNCHANGED <<x_action, x_ctl, x_calls, x_result, x_pc, retry_vars, agent_vars, point_vars, backoff_vars, deco_vars, cap_vars>>

\* a call of ActionExecutor.execute(x_action) on controller x_ctl
ExecExecute ==
    /\ x_pc = "idle"
    /\ LET r == execute(x_ctl, x_action, current_elements) IN
        /\ x_calls' = r.calls
        /\ x_result' = r.result
        /\ x_pc' = IF r.threw THEN "raised" ELSE "returned"
    /\ UNCHANGED <<current_elements, x_action, x_ctl, retry_vars, agent_vars, point_vars, backoff_vars, deco_vars, cap_vars>>

NextExec ==
    \/ \E e \in ExecElementLists : set_elements(e)
    \/ ExecExecute

SpecExec == InitExec /\ [][NextExec]_vars

\* ---- what happened in the call, read off its inputs and its trace ----
\* coordinate resolution was needed for the start coordinates
StartResolved == PointGiven(x_action.coordinate) \/ StrTruthy(x_action.element_label)

\* resolution (of the start, or of a drag's end coordinates) raised
ResolutionRaised ==
    LET s == resolve_point(x_ctl, x_action.coordinate, x_action.element_label, current_elements)
        e == resolve_point(x_ctl, x_action.end_coordinate, x_action.end_element_label,
                           current_elements) IN
    \/ StartResolved /\ s.exc # NoExc
    \/ /\ x_action.action_type = "drag"
       /\ ~(StartResolved /\ s.exc # NoExc)
       /\ e.exc # NoExc

\* the exception resolution raised
ResolutionError ==
    LET s == resolve_point(x_ctl, x_action.coordinate, x_action.element_label, current_elements)
        e == resolve_point(x_ctl, x_action.end_coordinate, x_action.end_element_label,
                           current_elements) IN
    IF StartResolved /\ s.exc # NoExc THEN s.exc ELSE e.exc

\* the last primitive the call invoked is the controller's faulty one: it raised
PrimitiveRaised == x_calls # <<>> /\ x_calls[Len(x_calls)].op = x_ctl.faulty

\* the action type is an ActionType member without a dispatch branch
NoDispatchBranch == x_action.action_type \in {"focus_window", "get_window_info"}

\* the screen-size query made while building the success result raised
ResultQueryRaised ==
    /\ ~ResolutionRaised /\ ~PrimitiveRaised /\ ~NoDispatchBranch
    /\ x_ctl.faulty = "get_screen_size"

\* C10 (as stated): execute never throws for an action whose type is an
\* ActionType member, and the result is a failure carrying the exception
\* message exactly when resolution or the dispatched primitive raised, and a
\* success otherwise.
C10_AsStated ==
    (x_pc # "idle" /\ x_action.action_type \in ActionType) =>
        /\ x_pc = "returned"
        /\ x_result.success = ~(ResolutionRaised \/ PrimitiveRaised)
        /\ ResolutionRaised => x_result.error = ResolutionError.msg
        /\ PrimitiveRaised => x_result.error = x_ctl.exc.msg

\* C10 (amended): execute never throws for an action whose type is an
\* ActionType member; the result is a failure carrying the exception message
\* exactly when resolution raised, the dispatched primitive raised, the type
\* has no dispatch branch (focus_window, get_window_info), or the screen-size
\* query made for the success result raised; it is a success otherwise.
C10_ExecuteNeverThrows ==
    (x_pc # "idle" /\ x_action.action_type \in ActionType) =>
        /\ x_pc = "returned"
        /\ x_result.success =
              ~(ResolutionRaised \/ PrimitiveRaised \/ NoDispatchBranch \/ ResultQueryRaised)
        /\ ResolutionRaised => x_result.error = ResolutionError.msg
        /\ PrimitiveRaised => x_result.error = x_ctl.exc.msg
        /\ (NoDispatchBranch /\ ~ResolutionRaised) => x_result.error = "Unknown action type"
        /\ ResultQueryRaised => x_result.error = x_ctl.exc.msg
        /\ x_result.success => x_result.error = NoneStr

\* C10 witness: a primitive was invoked and raised, and execute returned a
\* failed result carrying the controller's message
C10_Witness ==
    /\ x_pc = "returned" /\ PrimitiveRaised
    /\ x_action.action_type = "click"
    /\ x_result.success = FALSE /\ x_result.error = "device busy"

\* ------------------------------------------------------------------
\* RetryConfig and RetryExecutor (retry.py)
\* ------------------------------------------------------------------
\* RetryConfig: max_attempts, the two classification lists, and whether the
\* on_retry / on_failure callbacks are configured
RetryConfig(n, retryable, non_retryable, callbacks) ==
    [max_attempts |-> n, retryable_exceptions |-> retryable,
     non_retryable_exceptions |-> non_retryable, callbacks |-> callbacks]

\* the default classification: retryable [Exception], non-retryable []
DefaultClassification(cfg) ==
    cfg.retryable_exceptions = {"Exception"} /\ cfg.non_retryable_exceptions = {}

\* the classifications the model constructs executors with
Classifications ==
    { <<{"Exception"}, {}>>, <<{"OSError"}, {"TimeoutError"}>>, <<{"Exception"}, {"ValueError"}>> }

RetryConfigs ==
    {RetryConfig(n, c[1], c[2], cb) :
        n \in 1..MaxAttemptsBound, c \in Classifications, cb \in BOOLEAN}

\* a should_retry that never retries
should_retry_never(cfg, exception) == FALSE

\* a should_retry that consults the retryable list first
should_retry_retryable_first(cfg, exception) ==
    IF \E t \in cfg.retryable_exceptions : isinstance(exception, t) THEN TRUE
    ELSE FALSE

\* retry.py RetryConfig.should_retry
should_retry(cfg, exception) ==
    IF \E t \in cfg.non_retryable_exceptions : isinstance(exception, t) THEN FALSE
    ELSE IF \E t \in cfg.retryable_exceptions : isinstance(exception, t) THEN TRUE
    ELSE FALSE

\* a last-attempt test that gives up one attempt early
LastAttemptEarly(cfg, n) == n >= cfg.max_attempts - 2

\* retry.py execute_with_retry: if attempt >= self.config.max_attempts - 1: break
LastAttempt(cfg, n) == n >= cfg.max_attempts - 1

\* what one invocation of the wrapped executor can do: return a successful
\* Result, raise, or return a Result with success = False. `origin` is the
\* exception the failure began as (NoExc when there was none)
OkOutcomes ==
    {[kind |-> "ok", origin |-> NoExc,
      result |-> ActionResult(TRUE, [text |-> "executed successfully", of |-> "wait"], NoneStr)]}
RaiseOutcomes ==
    {[kind |-> "raise", origin |-> Exc(t, m), exc |-> Exc(t, m)] :
        t \in ExcTypes, m \in {"boom", ""}}
FailOutcomes ==
    {[kind |-> "fail", origin |-> NoExc,
      result |-> ActionResult(FALSE, [text |-> "failed", of |-> "wait"], e)] :
        e \in {NoneStr, "", "denied"}}

\* the exception ActionExecutor.execute caught and turned into a failed
\* Result (NoExc when the action succeeded)
CaughtInside(ctl, action, elements) ==
    LET st == execute_action(ctl, action, elements) IN
    IF st.exc # NoExc THEN st.exc
    ELSE IF ctl.faulty = "get_screen_size" THEN ctl.exc
    ELSE NoExc

\* one invocation of a wrapped ActionExecutor: self.executor.execute(action)
\* with the controller behaving as ctl
WrappedOutcome(ctl, action, elements) ==
    LET r == execute(ctl, action, elements) IN
    [kind |-> IF r.result.success THEN "ok" ELSE "fail",
     origin |-> CaughtInside(ctl, action, elements),
     result |-> r.result]

\* actions and controller behaviours of a wrapped ActionExecutor: a wait, a
\* click on a label, and a click whose Point has the ELEMENT_LABEL type
\* (resolve_point raises ValueError); a primitive may raise OSError or
\* TimeoutError
WrappedActions ==
    {Action("wait", NoPoint, NoneStr, NoneStr, <<>>, NoPoint, NoneStr),
     Action("click", NoPoint, "~1", NoneStr, <<>>, NoPoint, NoneStr),
     Action("click", Point(0, 0, "ELEMENT_LABEL"), NoneStr, NoneStr, <<>>, NoPoint, NoneStr)}
WrappedControllers ==
    {HealthyController,
     Controller(TheScreen, TheMouse, "mouse_click", Exc("OSError", "device busy")),
     Controller(TheScreen, TheMouse, "wait", Exc("TimeoutError", "timed out"))}
ExecutorOutcomes ==
    {WrappedOutcome(c, a, e) :
        c \in WrappedControllers, a \in WrappedActions, e \in ElementLists}

Outcomes == OkOutcomes \cup RaiseOutcomes \cup FailOutcomes \cup ExecutorOutcomes

\* the last_error a failed invocation leaves: the exception raised, or
\* Exception(result.error or "Action failed")
ErrorOf(outcome) ==
    IF outcome.kind = "raise" THEN outcome.exc
    ELSE Exc("Exception",
             IF StrTruthy(outcome.result.error) THEN outcome.result.error ELSE "Action failed")

\* the ActionResult of the final-failure handling
ExhaustedResult(cfg, e) ==
    ActionResult(FALSE, [text |-> "Action failed after attempts", n |-> cfg.max_attempts], e.msg)

\* a retry step that sleeps before it calls on_retry
RetryEventsSleepFirst(cfg, n) ==
    <<[ev |-> "retry_count"], [ev |-> "backoff", attempt |-> n],
      [ev |-> "sleep", attempt |-> n]>>
        \o (IF cfg.callbacks THEN <<[ev |-> "on_retry", n |-> n + 1]>> ELSE <<>>)

\* execute_with_retry between two attempts: self._retry_count += 1,
\* delay = backoff_strategy(attempt), on_retry(attempt + 1, last_error) if
\* configured, time.sleep(delay); the error handed to on_retry is last_error
RetryEvents(cfg, n) ==
    <<[ev |-> "retry_count"], [ev |-> "backoff", attempt |-> n]>>
        \o (IF cfg.callbacks THEN <<[ev |-> "on_retry", n |-> n + 1]>> ELSE <<>>)
        \o <<[ev |-> "sleep", attempt |-> n]>>

\* a final-failure handling that never calls on_failure
FailureEventsSilent(cfg, e) == <<>>

\* execute_with_retry after the loop: on_failure(last_error) if configured
FailureEvents(cfg, e) ==
    IF cfg.callbacks THEN <<[ev |-> "on_failure", error |-> e]>> ELSE <<>>

\* RetryExecutor.__init__ with one of the configurations
InitRetry ==
    /\ config \in RetryConfigs
    /\ total_attempts = 0 /\ successful_attempts = 0
    /\ failed_attempts = 0 /\ retry_count = 0
    /\ attempt = 0 /\ last_error = NoExc /\ r_pc = "idle" /\ r_result = NoResult
    /\ r_invocations = 0 /\ r_failures = 0 /\ r_last_outcome = [kind |-> "none"]
    /\ r_events = <<>> /\ r_calls = 0
    /\ r_since = [invocations |-> 0, calls |-> 0]
    /\ ExecIdle /\ AgentIdle /\ PointIdle /\ BackoffIdle /\ DecoIdle /\ CapIdle

\* execute_with_retry is entered: last_error = None, the loop starts at attempt 0
RetryEnter ==
    /\ r_pc \in {"idle", "returned"}
    /\ r_calls < MaxRetryCalls
    /\ r_calls' = r_calls + 1
    /\ attempt' = 0
    /\ last_error' = NoExc
    /\ r_pc' = "loop"
    /\ r_result' = NoResult
    /\ r_invocations' = 0 /\ r_failures' = 0
    /\ r_last_outcome' = [kind |-> "none"]
    /\ r_events' = <<>>
    /\ r_since' = [r_since EXCEPT !.calls = @ + 1]
    /\ UNCHANGED <<config, total_attempts, successful_attempts, failed_attempts,
                   retry_count, exec_vars, agent_vars, point_vars, backoff_vars, deco_vars, cap_vars>>

\* one iteration of the loop of execute_with_retry: the wrapped executor is
\* invoked and does `outcome`; then the engine returns the success, or falls
\* through to the final-failure handling, or counts a retry, computes the
\* backoff delay, calls on_retry, sleeps and goes on to the next attempt
RetryAttempt(outcome) ==
    /\ r_pc = "loop"
    /\ attempt < config.max_attempts
    /\ total_attempts' = total_attempts + 1
    /\ r_invocations' = r_invocations + 1
    /\ r_last_outcome' = outcome
    /\ r_since' = [r_since EXCEPT !.invocations = @ + 1]
    /\ IF outcome.kind = "ok"
       THEN /\ successful_attempts' = successful_attempts + 1
            /\ r_result' = outcome.result
            /\ r_pc' = "returned"
            /\ UNCHANGED <<failed_attempts, retry_count, attempt, last_error,
                           r_failures, r_events>>
       ELSE LET e == ErrorOf(outcome) IN
            /\ last_error' = e
            /\ r_failures' = r_failures + 1
            /\ UNCHANGED successful_attempts
            /\ IF LastAttempt(config, attempt) \/ ~should_retry(config, e)
               THEN /\ failed_attempts' = failed_attempts + 1
                    /\ r_events' = r_events \o FailureEvents(config, e)
                    /\ r_result' = ExhaustedResult(config, e)
                    /\ r_pc' = "returned"
                    /\ UNCHANGED <<retry_count, attempt>>
               ELSE /\ retry_count' = retry_count + 1
                    /\ r_events' = r_events \o RetryEvents(config, attempt)
                    /\ attempt' = attempt + 1
                    /\ UNCHANGED <<failed_attempts, r_result, r_pc>>
    /\ UNCHANGED <<config, r_calls, exec_vars, agent_vars, point_vars, backoff_vars, deco_vars, cap_vars>>

\* a reset that forgets the retry counter
reset_stats_keeps_retries ==
    /\ r_pc \in {"idle", "returned"}
    /\ total_attempts' = 0 /\ successful_attempts' = 0
    /\ failed_attempts' = 0
    /\ r_since' = [invocations |-> 0, calls |-> 0]
    /\ UNCHANGED <<config, retry_count, attempt, last_error, r_pc, r_result, r_invocations,
                   r_failures, r_last_outcome, r_events, r_calls, exec_vars, agent_vars,
                   point_vars, backoff_vars, deco_vars, cap_vars>>

\* retry.py RetryExecutor.reset_stats (between calls)
reset_stats ==
    /\ r_pc \in {"idle", "returned"}
    /\ total_attempts' = 0 /\ successful_attempts' = 0
    /\ failed_attempts' = 0 /\ retry_count' = 0
    /\ r_since' = [invocations |-> 0, calls |-> 0]
    /\ UNCHANGED <<config, attempt, last_error, r_pc, r_result, r_invocations,
                   r_failures, r_last_outcome, r_events, r_calls, exec_vars, agent_vars, point_vars, backoff_vars, deco_vars, cap_vars>>

NextRetry ==
    \/ RetryEnter
    \/ \E o \in Outcomes : RetryAttempt(o)
    \/ reset_stats

SpecRetry == InitRetry /\ [][NextRetry]_vars

\* C1: with the default classification, an executor that fails on its first
\* k < max_attempts invocations and succeeds on invocation k+1 is invoked
\* exactly k+1 times and its successful Result is what execute_with_retry
\* returns: the engine never gives up after fewer than max_attempts failures,
\* and it stops at the first success.
C1_SucceedsAfterFailures ==
    (r_pc = "returned" /\ DefaultClassification(config)) =>
        /\ r_failures < config.max_attempts => r_last_outcome.kind = "ok"
        /\ r_last_outcome.kind = "ok" =>
              /\ r_invocations = r_failures + 1
              /\ r_result = r_last_outcome.result
              /\ r_result.success

\* C1 witness: max_attempts = 3, two failures, then the success is returned
C1_Witness ==
    /\ r_pc = "returned" /\ DefaultClassification(config)
    /\ config.max_attempts = 3
    /\ r_failures = 2 /\ r_invocations = 3
    /\ r_result.success

\* C2: with the default classification, an executor that fails on every
\* invocation is invoked exactly max_attempts times; the Result returned has
\* success = false, a message stating that max_attempts attempts were
\* exhausted, and as error the text of the last failure (the message of the
\* exception raised, or the error of the failed Result, "Action failed"
\* standing in for an absent or empty one).
C2_ExhaustsAttempts ==
    (r_pc = "returned" /\ DefaultClassification(config) /\ r_last_outcome.kind # "ok") =>
        /\ r_invocations = config.max_attempts
        /\ r_failures = config.max_attempts
        /\ r_result.success = FALSE
        /\ r_result.message = [text |-> "Action failed after attempts", n |-> config.max_attempts]
        /\ r_last_outcome.kind = "raise" => r_result.error = r_last_outcome.exc.msg
        /\ (r_last_outcome.kind = "fail" /\ StrTruthy(r_last_outcome.result.error)) =>
              r_result.error = r_last_outcome.result.error
        /\ (r_last_outcome.kind = "fail" /\ ~StrTruthy(r_last_outcome.result.error)) =>
              r_result.error = "Action failed"

\* C2 witness: max_attempts = 3, three failures, the last one a failed Result
\* with error "denied", and the exhausted Result is returned
C2_Witness ==
    /\ r_pc = "returned" /\ DefaultClassification(config)
    /\ config.max_attempts = 3 /\ r_invocations = 3 /\ r_failures = 3
    /\ r_last_outcome.kind = "fail"
    /\ r_result.success = FALSE /\ r_result.error = "denied"

\* ------------------------------------------------------------------
\* The agent loops: ComputerAgent (ai_interface.py) and
\* AsyncComputerAgent (async_agent.py)
\* ------------------------------------------------------------------
\* the actions the brain answers with
WaitAction == Action("wait", NoPoint, NoneStr, NoneStr, <<>>, NoPoint, NoneStr)
ClickLabel == Action("click", NoPoint, "~1", NoneStr, <<>>, NoPoint, NoneStr)
BrainActions == {WaitAction, ClickLabel}

\* the controller's behaviour while an action executes
AgentControllers ==
    {HealthyController,
     Controller(TheScreen, TheMouse, "mouse_click", Exc("OSError", "device busy"))}

\* __init__ of either agent: step counter 0, empty history, not running, not
\* cancelled; its ActionExecutor has no elements yet
InitAgent ==
    /\ variant \in {"sync", "async"}
    /\ max_steps \in 0..MaxStepsBound
    /\ annotate_screenshot \in BOOLEAN
    /\ pc = "idle" /\ current_step = 0 /\ history = <<>>
    /\ running = FALSE /\ cancelled = FALSE /\ ret = "None"
    /\ screen_elements = <<>> /\ cur_action = NoAction /\ cur_result = NoResult
    /\ g = NoObservations
    /\ ExecIdle /\ RetryIdle /\ PointIdle /\ BackoffIdle /\ DecoIdle /\ CapIdle

\* a loop condition that lets one step too many through
LoopGuardOffByOne(step, limit) == step <= limit

\* ai_interface.py run: while self._current_step < self.config.max_steps
LoopGuard(step, limit) == step < limit

\* a loop condition that does not look at the cancellation flag
AsyncLoopGuardNoCancel(step, limit, c) == step < limit

\* async_agent.py run: while self._current_step < self.config.max_steps
\*                           and not self._cancelled
AsyncLoopGuard(step, limit, c) == step < limit /\ ~c

\* a history that is not appended to
RecordHistoryDropped(h, a, r) == h

\* a history that records successful actions only
RecordHistorySuccessOnly(h, a, r) == IF r.success THEN Append(h, <<a, r>>) ELSE h

\* self._history.append((action, result))
RecordHistory(h, a, r) == Append(h, <<a, r>>)

\* a continuation check whose answer is ignored
StopsRunNever(answer) == FALSE

\* if not self.brain.should_continue(...): return True
StopsRun(answer) == ~answer

\* the collaborators capture_screen_state calls, in order: the annotator is
\* called only if config.annotate_screenshot and elements
CapturePath(annotate, elements) ==
    <<"screenshot", "screenshot_base64", "detect">>
        \o (IF annotate /\ elements # <<>> THEN <<"annotate_base64">> ELSE <<>>)
        \o <<"get_screen_size">>

CaptureCollaborators ==
    {"screenshot", "screenshot_base64", "detect", "annotate_base64", "get_screen_size"}

\* the faulty collaborator is called on this path, and raises
CallRaises(path, faulty) == \E i \in DOMAIN path : path[i] = faulty

\* the detector had returned before the faulty collaborator was called
Detected(path, faulty) == \E i \in DOMAIN path : path[i] = faulty /\ i > 3

\* ---- ComputerAgent ----
\* run() is called: the step counter and the history are reset
SyncRun ==
    /\ variant = "sync" /\ pc \in {"idle", "done"}
    /\ g.runs < MaxRuns
    /\ current_step' = 0 /\ history' = <<>>
    /\ ret' = "None" /\ pc' = "loop"
    /\ cur_action' = NoAction /\ cur_result' = NoResult
    /\ g' = [FreshRun(g.runs + 1) EXCEPT !.earlier = HowEnded]
    /\ UNCHANGED <<variant, max_steps, annotate_screenshot, running, cancelled, screen_elements,
                   exec_vars, retry_vars, point_vars, backoff_vars, deco_vars, cap_vars>>

\* the while condition of run(): enter step() (the counter is incremented),
\* or leave the loop and return False
SyncLoop ==
    /\ variant = "sync" /\ pc = "loop"
    /\ IF LoopGuard(current_step, max_steps)
       THEN /\ current_step' = current_step + 1
            /\ pc' = "capture"
            /\ g' = [g EXCEPT !.step_attempts = 0]
            /\ UNCHANGED ret
       ELSE /\ ret' = "False" /\ pc' = "done"
            /\ UNCHANGED <<current_step, g>>
    /\ UNCHANGED <<variant, max_steps, annotate_screenshot, history, running, cancelled, screen_elements,
                   cur_action, cur_result, exec_vars, retry_vars, point_vars, backoff_vars, deco_vars, cap_vars>>

\* a step() that captures the screen but leaves the executor's element list
\* as the step before published it
SyncCaptureUnpublished(elements, faulty) ==
    /\ variant = "sync" /\ pc = "capture"
    /\ LET path == CapturePath(annotate_screenshot, elements) IN
       IF CallRaises(path, faulty)
       THEN /\ ret' = "Raised" /\ pc' = "done"
            /\ g' = [g EXCEPT !.raised = faulty]
            /\ screen_elements' = IF Detected(path, faulty) THEN elements
                                  ELSE screen_elements
       ELSE /\ screen_elements' = elements
            /\ pc' = "think"
            /\ UNCHANGED <<ret, g>>
    /\ UNCHANGED <<variant, max_steps, annotate_screenshot, current_step, history, running,
                   cancelled, cur_action, cur_result, exec_vars, retry_vars, point_vars,
                   backoff_vars, deco_vars, cap_vars>>

\* step(): capture_screen_state() runs its collaborators in order, the
\* detector finding `elements` and the collaborator `faulty` (or "none")
\* raising when called. No call of capture_screen_state, step or run is
\* inside a try block, so an exception raised here leaves run(); otherwise
\* the element list is published to the executor
SyncCapture(elements, faulty) ==
    /\ variant = "sync" /\ pc = "capture"
    /\ LET path == CapturePath(annotate_screenshot, elements) IN
       IF CallRaises(path, faulty)
       THEN /\ ret' = "Raised" /\ pc' = "done"
            /\ g' = [g EXCEPT !.raised = faulty]
            /\ screen_elements' = IF Detected(path, faulty) THEN elements
                                  ELSE screen_elements
            /\ UNCHANGED current_elements
       ELSE /\ screen_elements' = elements
            /\ current_elements' = elements
            /\ pc' = "think"
            /\ UNCHANGED <<ret, g>>
    /\ UNCHANGED <<variant, max_steps, annotate_screenshot, current_step, history, running,
                   cancelled, cur_action, cur_result, x_action, x_ctl, x_calls, x_result,
                   x_pc, retry_vars, point_vars, backoff_vars, deco_vars, cap_vars>>

\* step(): brain.think answers `decision` (an Action, or NoAction for None);
\* on None step returns (None, None, state) and run returns True
SyncThink(decision) ==
    /\ variant = "sync" /\ pc = "think"
    /\ IF decision = NoAction
       THEN /\ ret' = "True" /\ pc' = "done"
            /\ g' = [g EXCEPT !.thinks = @ + 1, !.decisions = Append(@, decision), !.last_think = "None",
                              !.all_actions = FALSE]
            /\ UNCHANGED cur_action
       ELSE /\ cur_action' = decision /\ pc' = "execute"
            /\ g' = [g EXCEPT !.thinks = @ + 1, !.decisions = Append(@, decision), !.last_think = "action"]
            /\ UNCHANGED ret
    /\ UNCHANGED <<variant, max_steps, annotate_screenshot, current_step, history, running, cancelled,
                   screen_elements, cur_result, exec_vars, retry_vars, point_vars, backoff_vars, deco_vars, cap_vars>>

\* step(): result = self.executor.execute(action), the controller behaving as ctl
SyncExecute(ctl) ==
    /\ variant = "sync" /\ pc = "execute"
    /\ LET r == execute(ctl, cur_action, current_elements).result IN
        /\ cur_result' = r
        /\ g' = [g EXCEPT !.execs = @ + 1, !.step_attempts = @ + 1,
                          !.executed = Append(@, <<cur_action, r>>)]
    /\ pc' = "callback"
    /\ UNCHANGED <<variant, max_steps, annotate_screenshot, current_step, history, running, cancelled, ret,
                   screen_elements, cur_action, exec_vars, retry_vars, point_vars, backoff_vars, deco_vars, cap_vars>>

\* step(): brain.on_action_result(action, result), then the pair is appended
\* to the history; step returns after action_delay
SyncCallback ==
    /\ variant = "sync" /\ pc = "callback"
    /\ history' = RecordHistory(history, cur_action, cur_result)
    /\ g' = [g EXCEPT !.callbacks = @ + 1]
    /\ pc' = "continue"
    /\ UNCHANGED <<variant, max_steps, annotate_screenshot, current_step, running, cancelled, ret,
                   screen_elements, cur_action, cur_result, exec_vars, retry_vars, point_vars, backoff_vars, deco_vars, cap_vars>>

\* run(): brain.should_continue answers `answer`; on False run returns True
SyncContinue(answer) ==
    /\ variant = "sync" /\ pc = "continue"
    /\ g' = [g EXCEPT !.conts = @ + 1, !.answers = Append(@, answer),
                      !.last_cont = IF answer THEN "True" ELSE "False",
                      !.all_continue = @ /\ answer]
    /\ IF StopsRun(answer)
       THEN ret' = "True" /\ pc' = "done"
       ELSE pc' = "loop" /\ UNCHANGED ret
    /\ UNCHANGED <<variant, max_steps, annotate_screenshot, current_step, history, running, cancelled,
                   screen_elements, cur_action, cur_result, exec_vars, retry_vars, point_vars, backoff_vars, deco_vars, cap_vars>>

\* ---- AsyncComputerAgent ----
\* asyncio.wait_for(self.brain.think(...), timeout=step_timeout) timed out
Timeout == [action_type |-> "Timeout"]

\* a run() that leaves the cancellation flag of the run before as it was
AsyncRunStaysCancelled ==
    /\ variant = "async" /\ pc \in {"idle", "done"}
    /\ g.runs < MaxRuns
    /\ current_step' = 0 /\ history' = <<>>
    /\ running' = TRUE
    /\ ret' = "None" /\ pc' = "loop"
    /\ cur_action' = NoAction /\ cur_result' = NoResult
    /\ g' = [FreshRun(g.runs + 1) EXCEPT !.earlier = HowEnded]
    /\ UNCHANGED <<variant, max_steps, annotate_screenshot, cancelled, screen_elements,
                   exec_vars, retry_vars, point_vars, backoff_vars, deco_vars, cap_vars>>

\* run() starts executing: counter, history, _running and _cancelled are reset
AsyncRun ==
    /\ variant = "async" /\ pc \in {"idle", "done"}
    /\ g.runs < MaxRuns
    /\ current_step' = 0 /\ history' = <<>>
    /\ running' = TRUE /\ cancelled' = FALSE
    /\ ret' = "None" /\ pc' = "loop"
    /\ cur_action' = NoAction /\ cur_result' = NoResult
    /\ g' = [FreshRun(g.runs + 1) EXCEPT !.earlier = HowEnded]
    /\ UNCHANGED <<variant, max_steps, annotate_screenshot, screen_elements, exec_vars, retry_vars, point_vars, backoff_vars, deco_vars, cap_vars>>

\* the while condition of run(): enter step() (the counter is incremented),
\* or leave the loop and return False (cancelled, or step limit reached);
\* the finally clause clears _running
AsyncLoop ==
    /\ variant = "async" /\ pc = "loop"
    /\ IF AsyncLoopGuard(current_step, max_steps, cancelled)
       THEN /\ current_step' = current_step + 1
            /\ pc' = "capture"
            /\ g' = [g EXCEPT !.step_attempts = 0]
            /\ UNCHANGED <<ret, running>>
       ELSE /\ ret' = "False" /\ pc' = "done" /\ running' = FALSE
            /\ UNCHANGED <<current_step, g>>
    /\ UNCHANGED <<variant, max_steps, annotate_screenshot, history, cancelled, screen_elements,
                   cur_action, cur_result, exec_vars, retry_vars, point_vars, backoff_vars, deco_vars, cap_vars>>

\* an exception raised by collaborator `who` inside capture_screen_state
\* leaves the async run(): the finally clause clears _running
AsyncRaise(who) ==
    /\ ret' = "Raised" /\ pc' = "done" /\ running' = FALSE
    /\ g' = [g EXCEPT !.raised = who]

\* one awaited worker-pool call of capture_screen_state that is at position
\* `at` and goes on to position `to`: it returns (ok) or raises
AsyncAwait(at, who, to, ok) ==
    /\ variant = "async" /\ pc = at
    /\ IF ok THEN pc' = to /\ UNCHANGED <<ret, running, g>>
       ELSE AsyncRaise(who)
    /\ UNCHANGED <<variant, max_steps, annotate_screenshot, current_step, history,
                   cancelled, screen_elements, cur_action, cur_result, exec_vars,
                   retry_vars, point_vars, backoff_vars, deco_vars, cap_vars>>

\* capture_screen_state: await self._run_in_thread(self.controller.screenshot)
AsyncScreenshot(ok) == AsyncAwait("capture", "screenshot", "encode", ok)

\* capture_screen_state: await self._run_in_thread(self.controller.screenshot_base64)
AsyncScreenshotBase64(ok) == AsyncAwait("encode", "screenshot_base64", "detect", ok)

\* capture_screen_state: elements = await self._run_in_thread(self.detector.detect, ...)
\* the detector finds `elements`, or raises; annotation follows only if
\* config.annotate_screenshot and elements
AsyncDetect(elements, ok) ==
    /\ variant = "async" /\ pc = "detect"
    /\ IF ok
       THEN /\ screen_elements' = elements
            /\ pc' = IF annotate_screenshot /\ elements # <<>> THEN "annotate" ELSE "state"
            /\ UNCHANGED <<ret, running, g>>
       ELSE AsyncRaise("detect") /\ UNCHANGED screen_elements
    /\ UNCHANGED <<variant, max_steps, annotate_screenshot, current_step, history,
                   cancelled, cur_action, cur_result, exec_vars, retry_vars, point_vars, backoff_vars, deco_vars, cap_vars>>

\* capture_screen_state: await self._run_in_thread(self.annotator.annotate_base64, ...)
AsyncAnnotate(ok) == AsyncAwait("annotate", "annotate_base64", "state", ok)

\* capture_screen_state builds the ScreenState (controller.get_screen_size()
\* is called on the event loop) and returns it; step() publishes the element
\* list to the executor
AsyncCapture(ok) ==
    /\ variant = "async" /\ pc = "state"
    /\ IF ok
       THEN /\ current_elements' = screen_elements
            /\ pc' = "think"
            /\ UNCHANGED <<ret, running, g>>
       ELSE AsyncRaise("get_screen_size") /\ UNCHANGED current_elements
    /\ UNCHANGED <<variant, max_steps, annotate_screenshot, current_step, history,
                   cancelled, screen_elements, cur_action, cur_result, x_action, x_ctl,
                   x_calls, x_result, x_pc, retry_vars, point_vars, backoff_vars, deco_vars, cap_vars>>

\* a step() whose decision timeout is recovered: the loop goes on to the
\* next step while the think that timed out may still be running
AsyncThinkResumes(decision) ==
    /\ variant = "async" /\ pc = "think"
    /\ IF decision = NoAction
       THEN /\ ret' = "True" /\ pc' = "done" /\ running' = FALSE
            /\ g' = [g EXCEPT !.thinks = @ + 1, !.decisions = Append(@, decision), !.last_think = "None",
                              !.all_actions = FALSE,
                              !.thinks_after_cancel = IF g.cancel_called THEN @ + 1 ELSE @]
            /\ UNCHANGED cur_action
       ELSE IF decision = Timeout
       THEN /\ pc' = "loop"
            /\ g' = [g EXCEPT !.thinks = @ + 1, !.decisions = Append(@, decision), !.last_think = "timeout",
                              !.all_actions = FALSE,
                              !.thinks_after_cancel = IF g.cancel_called THEN @ + 1 ELSE @,
                              !.detached = @ \cup {current_step}]
            /\ UNCHANGED <<ret, running, cur_action>>
       ELSE /\ cur_action' = decision /\ pc' = "execute"
            /\ g' = [g EXCEPT !.thinks = @ + 1, !.decisions = Append(@, decision), !.last_think = "action",
                              !.thinks_after_cancel = IF g.cancel_called THEN @ + 1 ELSE @]
            /\ UNCHANGED <<ret, running>>
    /\ UNCHANGED <<variant, max_steps, annotate_screenshot, current_step, history, cancelled,
                   screen_elements, cur_result, exec_vars, retry_vars, point_vars, backoff_vars, deco_vars, cap_vars>>

\* step(): the awaited brain.think answers `decision`: an Action, NoAction
\* for None, or Timeout when wait_for gave up. On None and on Timeout step
\* returns (None, None, state), and run returns True. wait_for cancels the
\* awaiting coroutine only: a think that SyncBrainAdapter handed to a worker
\* thread keeps running there
AsyncThink(decision) ==
    /\ variant = "async" /\ pc = "think"
    /\ IF decision \in {NoAction, Timeout}
       THEN /\ ret' = "True" /\ pc' = "done" /\ running' = FALSE
            /\ g' = [g EXCEPT !.thinks = @ + 1, !.decisions = Append(@, decision),
                              !.last_think = IF decision = Timeout THEN "timeout" ELSE "None",
                              !.all_actions = FALSE,
                              !.thinks_after_cancel = IF g.cancel_called THEN @ + 1 ELSE @,
                              !.detached = IF decision = Timeout
                                           THEN @ \cup {current_step} ELSE @]
            /\ UNCHANGED cur_action
       ELSE /\ cur_action' = decision /\ pc' = "execute"
            /\ g' = [g EXCEPT !.thinks = @ + 1, !.decisions = Append(@, decision), !.last_think = "action",
                              !.thinks_after_cancel = IF g.cancel_called THEN @ + 1 ELSE @]
            /\ UNCHANGED <<ret, running>>
    /\ UNCHANGED <<variant, max_steps, annotate_screenshot, current_step, history, cancelled,
                   screen_elements, cur_result, exec_vars, retry_vars, point_vars, backoff_vars, deco_vars, cap_vars>>

\* step(): result = await self._run_in_thread(self.executor.execute, action)
AsyncExecute(ctl) ==
    /\ variant = "async" /\ pc = "execute"
    /\ LET r == execute(ctl, cur_action, current_elements).result IN
        /\ cur_result' = r
        /\ g' = [g EXCEPT !.execs = @ + 1, !.step_attempts = @ + 1,
                          !.executed = Append(@, <<cur_action, r>>)]
    /\ pc' = "callback"
    /\ UNCHANGED <<variant, max_steps, annotate_screenshot, current_step, history, running, cancelled, ret,
                   screen_elements, cur_action, exec_vars, retry_vars, point_vars, backoff_vars, deco_vars, cap_vars>>

\* step(): await brain.on_action_result(action, result), then the pair is
\* appended to the history; step returns after action_delay
AsyncCallback ==
    /\ variant = "async" /\ pc = "callback"
    /\ history' = RecordHistory(history, cur_action, cur_result)
    /\ g' = [g EXCEPT !.callbacks = @ + 1]
    /\ pc' = "continue"
    /\ UNCHANGED <<variant, max_steps, annotate_screenshot, current_step, running, cancelled, ret,
                   screen_elements, cur_action, cur_result, exec_vars, retry_vars, point_vars, backoff_vars, deco_vars, cap_vars>>

\* run(): await brain.should_continue answers `answer`; on False run returns True
AsyncContinue(answer) ==
    /\ variant = "async" /\ pc = "continue"
    /\ g' = [g EXCEPT !.conts = @ + 1, !.answers = Append(@, answer),
                      !.last_cont = IF answer THEN "True" ELSE "False",
                      !.all_continue = @ /\ answer]
    /\ IF StopsRun(answer)
       THEN ret' = "True" /\ pc' = "done" /\ running' = FALSE
       ELSE pc' = "loop" /\ UNCHANGED <<ret, running>>
    /\ UNCHANGED <<variant, max_steps, annotate_screenshot, current_step, history, cancelled,
                   screen_elements, cur_action, cur_result, exec_vars, retry_vars, point_vars, backoff_vars, deco_vars, cap_vars>>

\* async_agent.py cancel(): sets the flag, nothing else. It may be called at
\* any time; when a run is in progress the observations note the step during
\* (or after) which it came and whether fewer than max_steps steps had run
cancel ==
    /\ variant = "async" /\ ~cancelled
    /\ cancelled' = TRUE
    /\ g' = IF pc \notin {"idle", "done"} /\ ~g.cancel_called
            THEN [g EXCEPT !.cancel_called = TRUE,
                           !.cancel_step = current_step,
                           !.cancel_early = (pc # "loop" \/ current_step < max_steps)]
            ELSE g
    /\ UNCHANGED <<variant, max_steps, annotate_screenshot, pc, current_step, history, running, ret,
                   screen_elements, cur_action, cur_result, exec_vars, retry_vars, point_vars, backoff_vars, deco_vars, cap_vars>>

\* SyncBrainAdapter.think: the worker thread of a think that timed out
\* returns, its answer going nowhere
DetachedThinkReturns ==
    /\ variant = "async" /\ g.detached # {}
    /\ \E k \in g.detached : g' = [g EXCEPT !.detached = @ \ {k}]
    /\ UNCHANGED <<variant, max_steps, annotate_screenshot, pc, current_step, history,
                   running, cancelled, ret, screen_elements, cur_action, cur_result,
                   exec_vars, retry_vars, point_vars, backoff_vars, deco_vars, cap_vars>>

\* the steps of a run that has started (brain, detector and controller return)
AgentProgress ==
    \/ SyncLoop
    \/ \E e \in ElementLists, f \in CaptureCollaborators \cup {"none"} : SyncCapture(e, f)
    \/ \E d \in BrainActions \cup {NoAction} : SyncThink(d)
    \/ \E c \in AgentControllers : SyncExecute(c)
    \/ SyncCallback
    \/ \E b \in BOOLEAN : SyncContinue(b)
    \/ AsyncLoop
    \/ \E ok \in BOOLEAN : AsyncScreenshot(ok)
    \/ \E ok \in BOOLEAN : AsyncScreenshotBase64(ok)
    \/ \E e \in ElementLists, ok \in BOOLEAN : AsyncDetect(e, ok)
    \/ \E ok \in BOOLEAN : AsyncAnnotate(ok)
    \/ \E ok \in BOOLEAN : AsyncCapture(ok)
    \/ \E d \in BrainActions \cup {NoAction, Timeout} : AsyncThink(d)
    \/ \E c \in AgentControllers : AsyncExecute(c)
    \/ AsyncCallback
    \/ \E b \in BOOLEAN : AsyncContinue(b)

NextAgent ==
    \/ SyncRun
    \/ AsyncRun
    \/ cancel
    \/ DetachedThinkReturns
    \/ AgentProgress

SpecAgent == InitAgent /\ [][NextAgent]_vars

\* a run that has started keeps taking steps
FairSpecAgent == SpecAgent /\ WF_vars(AgentProgress)

\* ------------------------------------------------------------------
\* Properties of the agent loops
\* ------------------------------------------------------------------
\* RetryConfig.max_attempts of a default RetryConfig
DefaultMaxAttempts == 3

\* C3: if think returns None at step k, run returns True at once: the history
\* holds exactly the k-1 (action, result) pairs the earlier steps produced,
\* current_step = k, and step k executed no action and invoked neither
\* on_action_result nor should_continue (think was invoked k times, each of
\* the others k-1 times).
C3_NoneEndsRun ==
    /\ g.last_think = "None" => pc = "done"
    /\ (pc = "done" /\ g.last_think = "None") =>
          /\ ret = "True"
          /\ current_step >= 1 /\ current_step <= max_steps
          /\ history = g.executed
          /\ Len(history) = current_step - 1
          /\ g.thinks = current_step
          /\ g.execs = current_step - 1
          /\ g.callbacks = current_step - 1
          /\ g.conts = current_step - 1

\* C3 witness: None at step 2 of the async agent, one pair in the history
C3_Witness ==
    /\ variant = "async" /\ pc = "done" /\ g.last_think = "None"
    /\ current_step = 2 /\ Len(history) = 1 /\ ret = "True"

\* the state part of C4
C4_Inv ==
    /\ current_step <= max_steps /\ g.thinks <= max_steps /\ g.execs <= max_steps
    /\ (pc = "done" /\ g.thinks = current_step /\ g.all_actions /\ g.all_continue
          /\ ~g.cancel_called) =>
          /\ ret = "False"
          /\ g.thinks = max_steps
          /\ Len(history) = max_steps
          /\ current_step = max_steps

\* C4: a run never executes more than max_steps steps; it terminates; and if
\* the brain was asked in every step started and answered every think with an
\* action and every should_continue with true (and cancel() was not called
\* during the run), it returns False
\* after exactly max_steps think invocations, with max_steps history entries
\* and current_step = max_steps.
C4_StepLimit == []C4_Inv /\ ((pc = "loop") ~> (pc = "done"))

\* C4 witness: max_steps = 3 reached by the sync agent, three recorded steps
C4_Witness ==
    /\ variant = "sync" /\ pc = "done" /\ g.all_actions /\ g.all_continue
    /\ max_steps = 3 /\ g.thinks = 3 /\ Len(history) = 3 /\ current_step = 3
    /\ ret = "False"

\* C5: if should_continue returns false after step k, run returns True at
\* once: the action of step k was executed, reported to on_action_result and
\* recorded as the k-th history entry, and no step k+1 is started.
C5_StopEndsRun ==
    /\ g.last_cont = "False" => (pc = "done" /\ ret = "True")
    /\ (pc = "done" /\ g.last_cont = "False") =>
          /\ Len(history) = current_step
          /\ history = g.executed
          /\ history[current_step] = <<cur_action, cur_result>>
          /\ g.thinks = current_step
          /\ g.execs = current_step
          /\ g.callbacks = current_step
          /\ g.conts = current_step

\* C5 witness: should_continue returned false after step 2
C5_Witness ==
    /\ pc = "done" /\ g.last_cont = "False" /\ ret = "True"
    /\ current_step = 2 /\ Len(history) = 2 /\ max_steps = 3

\* C6 (as stated): an action whose execution fails is attempted again until
\* max_attempts attempts have been made, before on_action_result is invoked
\* and the pair is appended to the history (every failure of the executor is
\* retryable under the default classification).
C6_AsStated ==
    (pc = "callback" /\ cur_result.success = FALSE) => g.step_attempts = DefaultMaxAttempts

\* C7 (as stated): a decision timeout at step k < max_steps does not end the
\* run: the loop goes on to step k+1.
C7_AsStated ==
    (g.last_think = "timeout" /\ current_step < max_steps /\ ~cancelled) => pc # "done"

\* C8 (as stated): a run during which cancel() was called, before max_steps
\* steps had executed, returns False (unless an exception ended it).
C8_AsStated ==
    (pc = "done" /\ g.cancel_early /\ g.raised = "none") => ret = "False"

\* C9: after cancel() is called during a run, think is invoked at most once
\* more, no step beyond the one in flight is started and no action is
\* executed in a later step; and when the run then ends as cancelled, the
\* step that was in flight has run to completion (its action was executed,
\* reported and recorded, and should_continue was consulted).
C9_CooperativeCancel ==
    g.cancel_called =>
        /\ g.thinks_after_cancel <= 1
        /\ current_step <= g.cancel_step
        /\ Len(g.executed) <= g.cancel_step
        /\ (pc = "done" /\ ret = "False") =>
              /\ Len(history) = current_step
              /\ history = g.executed
              /\ g.callbacks = current_step
              /\ g.conts = current_step

\* C9 witness: cancel() came during step 1 before think returned; the step
\* ran to completion and the run then ended as cancelled
C9_Witness ==
    /\ g.cancel_called /\ g.thinks_after_cancel = 1 /\ g.cancel_step = 1
    /\ pc = "done" /\ ret = "False"
    /\ max_steps = 3 /\ current_step = 1 /\ Len(history) = 1

\* the state part of C11: once a failed Result of step k has been reported,
\* it is the k-th history entry
C11_Inv ==
    (pc = "continue" /\ ~cur_result.success) =>
        /\ g.callbacks = current_step
        /\ Len(history) = current_step
        /\ history[current_step] = <<cur_action, cur_result>>

\* the step part of C11: what the loop does next after a failed Result
C11_Step ==
    /\ (pc = "execute" /\ pc' # pc /\ ~cur_result'.success) => pc' = "callback"
    /\ (pc = "callback" /\ pc' # pc /\ ~cur_result.success) =>
          /\ pc' = "continue"
          /\ g'.callbacks = g.callbacks + 1
          /\ history' = Append(history, <<cur_action, cur_result>>)
    /\ (pc = "continue" /\ pc' # pc /\ ~cur_result.success) =>
          /\ g'.conts = g.conts + 1
          /\ g'.last_cont = "True" => (pc' = "loop" /\ ret' = "None")
    /\ (pc = "loop" /\ pc' # pc /\ current_step >= 1 /\ ~cur_result.success
          /\ current_step < max_steps /\ ~cancelled) =>
          (pc' = "capture" /\ current_step' = current_step + 1)

\* C11: a failed action does not abort the run. When the execution of the
\* action of step k ends in a failed Result, the loop still invokes
\* on_action_result with it, appends (action, failed result) to the history
\* and consults should_continue; if the answer is true and k < max_steps (and
\* the async run was not cancelled), the run goes on to step k+1.
C11_FailureDoesNotAbort == []C11_Inv /\ [][C11_Step]_vars

\* C11 witness: step 1 ended in a failed Result, which is the one history
\* entry, and step 2 has started
C11_Witness ==
    /\ pc = "capture" /\ current_step = 2 /\ max_steps = 3
    /\ Len(history) = 1 /\ ~history[1][2].success
    /\ g.callbacks = 1 /\ g.conts = 1 /\ g.last_cont = "True"

\* C12 (as stated): run ends by returning a boolean; a failure of a
\* collaborator below the loop (the controller's screenshot or screen-size
\* query, the detector, the annotator, coordinate resolution or an action
\* primitive) never leaves run as an exception. (The brain of the model
\* never raises, so every exception leaving run is a collaborator's.)
C12_AsStated ==
    pc = "done" => (ret \in {"True", "False"} /\ g.raised = "none")

\* ------------------------------------------------------------------
\* Properties of the failure classification
\* ------------------------------------------------------------------
\* the engine has just classified last_error: the last invocation failed and
\* was not the last attempt allowed
Classified ==
    /\ r_pc \in {"loop", "returned"}
    /\ r_last_outcome.kind \in {"raise", "fail"}
    /\ r_invocations < config.max_attempts

\* C13: should_retry(e) is false whenever e is an instance of a type in
\* non_retryable_exceptions, even if it is also an instance of a retryable
\* type; otherwise it is true exactly when e is an instance of some type in
\* retryable_exceptions; under the default configuration every exception is
\* retryable. (The engine goes on to another attempt exactly when
\* should_retry answered true.)
C13_ClassificationPrecedence ==
    Classified =>
        /\ (Bases(last_error.type) \cap config.non_retryable_exceptions # {}) =>
              r_pc = "returned"
        /\ (Bases(last_error.type) \cap config.non_retryable_exceptions = {}) =>
              (r_pc = "loop" <=>
                  Bases(last_error.type) \cap config.retryable_exceptions # {})
        /\ DefaultClassification(config) => r_pc = "loop"

\* C13 witness: a ValueError under retryable [Exception], non-retryable
\* [ValueError] matches both lists and is not retried: the call returned
\* after one invocation out of three
C13_Witness ==
    /\ Classified /\ r_pc = "returned"
    /\ config.retryable_exceptions = {"Exception"}
    /\ config.non_retryable_exceptions = {"ValueError"}
    /\ config.max_attempts = 3 /\ r_invocations = 1
    /\ last_error.type = "ValueError"

\* C14 (as stated): when the wrapped executor is an ActionExecutor, the retry
\* decision for a failure that began as an exception of type T raised by the
\* controller or by coordinate resolution is the classification of T: not
\* retried when T matches a non-retryable type, and otherwise retried exactly
\* when T matches a retryable type.
C14_AsStated ==
    (Classified /\ r_last_outcome.kind = "fail" /\ r_last_outcome.origin # NoExc) =>
        LET T == r_last_outcome.origin.type IN
        /\ (Bases(T) \cap config.non_retryable_exceptions # {}) => r_pc = "returned"
        /\ (Bases(T) \cap config.non_retryable_exceptions = {}) =>
              (r_pc = "loop" <=> Bases(T) \cap config.retryable_exceptions # {})

\* ------------------------------------------------------------------
\* Properties of coordinate resolution
\* ------------------------------------------------------------------
\* the action names an element by label and no current element carries it
LabelUnmatched ==
    /\ StrTruthy(x_action.element_label)
    /\ \A i \in DOMAIN current_elements :
          current_elements[i].label # x_action.element_label

\* C15 (as stated): if an element label is supplied and no element of the
\* current element set carries it, the empty element set included, resolution
\* fails with the element-not-found error, never falling back to the supplied
\* Point or the pointer position, and execute returns success = false
\* without invoking any mouse or keyboard primitive. (The part checked: the
\* result is a failure and no primitive was invoked.)
C15_AsStated ==
    (x_pc = "returned" /\ LabelUnmatched) =>
        (x_result.success = FALSE /\ x_calls = <<>>)

\* the label of the action is looked up and found: the rectangle of the
\* first element carrying it
LabelMatched ==
    /\ StrTruthy(x_action.element_label)
    /\ \E i \in DOMAIN current_elements :
          current_elements[i].label = x_action.element_label

MatchedRect == current_elements[FirstWithLabel(current_elements, x_action.element_label)].rect

\* n is an integer nearest to twice / 2 (a half may go either way)
NearestInteger(n, twice) == 2 * n - twice \in {-1, 0, 1}

\* C16: resolving a label that matches an element yields the centre of its
\* rectangle, ((left+right)/2, (top+bottom)/2), each coordinate rounded to a
\* nearest integer (exact when the sum is even), for every integer rectangle
\* with right >= left and bottom >= top: the mouse primitive is invoked at
\* that position, e.g. (150, 150) for the rectangle (100, 100, 200, 200).
C16_LabelCentre ==
    (x_pc = "returned" /\ LabelMatched /\ x_action.action_type \in MouseTypes
        /\ x_calls # <<>>) =>
        /\ NearestInteger(x_calls[1].pos[1], MatchedRect.left + MatchedRect.right)
        /\ NearestInteger(x_calls[1].pos[2], MatchedRect.top + MatchedRect.bottom)
        /\ MatchedRect = Rect(100, 100, 200, 200) => x_calls[1].pos = <<150, 150>>

\* C16 witness: a click on label "~1" whose rectangle is (-3, -3, 0, 2), with
\* centre (-1.5, -0.5), was carried out at (-1, 0)
C16_Witness ==
    /\ x_pc = "returned" /\ LabelMatched /\ x_action.action_type = "click"
    /\ MatchedRect = Rect(-3, -3, 0, 2)
    /\ x_result.success /\ Len(x_calls) = 1 /\ x_calls[1].pos = <<-1, 0>>

\* ------------------------------------------------------------------
\* SpecPoint: the conversions of one Point (types.py Point.to_absolute,
\* Point.to_percentage; base.py resolve_point and execute on that Point)
\* ------------------------------------------------------------------
\* a float that a division produced: the quotient n / d (d > 0)
Quotient(n, d) == [n |-> n, d |-> d]

\* what a conversion produced: a Point with coordinates over CoordDen, a
\* Point whose coordinates are quotients, or an exception
Converted(p) == [kind |-> "point", point |-> p]
ConvertedQuotients(x, y, t) == [kind |-> "quotients", x |-> x, y |-> y, ctype |-> t]
ConversionRaised(e) == [kind |-> "raised", exc |-> e]

\* types.py Point.to_absolute
to_absolute(p, screen_width, screen_height) ==
    CASE p.ctype = "ABSOLUTE" ->
            Converted(Point(PyInt(p.x) * CoordDen, PyInt(p.y) * CoordDen, "ABSOLUTE"))
      [] p.ctype = "PERCENTAGE" ->
            Converted(Point(PyInt(p.x * screen_width) * CoordDen,
                            PyInt(p.y * screen_height) * CoordDen, "ABSOLUTE"))
      [] OTHER ->
            ConversionRaised(Exc("ValueError",
                "Cannot convert ELEMENT_LABEL to absolute without element info"))

\* a to_percentage that divides x by the height and y by the width
to_percentage_swapped(p, screen_width, screen_height) ==
    CASE p.ctype = "PERCENTAGE" -> Converted(p)
      [] p.ctype = "ABSOLUTE" ->
            ConvertedQuotients(Quotient(p.x, CoordDen * screen_height),
                               Quotient(p.y, CoordDen * screen_width), "PERCENTAGE")
      [] OTHER ->
            ConversionRaised(Exc("ValueError",
                "Cannot convert ELEMENT_LABEL to percentage without element info"))

\* types.py Point.to_percentage: a PERCENTAGE point is returned as it is, an
\* ABSOLUTE point becomes (x / screen_width, y / screen_height)
to_percentage(p, screen_width, screen_height) ==
    CASE p.ctype = "PERCENTAGE" -> Converted(p)
      [] p.ctype = "ABSOLUTE" ->
            ConvertedQuotients(Quotient(p.x, CoordDen * screen_width),
                               Quotient(p.y, CoordDen * screen_height), "PERCENTAGE")
      [] OTHER ->
            ConversionRaised(Exc("ValueError",
                "Cannot convert ELEMENT_LABEL to percentage without element info"))

\* the Points converted: x in {-1.25, -0.25, 0, 0.75, 1.5}, y in
\* {-0.25, 0.75} when CoordDen = 4, of every coordinate type
PointInputs ==
    {Point(x, y, t) : x \in {-5, -1, 0, 3, 6}, y \in {-1, 3}, t \in CoordinateType}

\* screen sizes (width, height > 0)
ScreenSizes == {Size(8, 6), Size(3, 5), Size(1, 1)}

\* the controller of a screen of size pt_size, every method returning
PointController == Controller(pt_size, TheMouse, "none", NoExc)

InitPoint ==
    /\ pt_point \in PointInputs
    /\ pt_size \in ScreenSizes
    /\ pt_value = [kind |-> "none"]
    /\ pt_trace = <<>>
    /\ ExecIdle /\ RetryIdle /\ AgentIdle /\ BackoffIdle /\ DecoIdle /\ CapIdle

\* pt_point.to_absolute(width, height). The products of the inputs with the
\* screen sizes are exact in binary floating point; a quotient is not
\* converted back
PointToAbsolute ==
    /\ pt_trace = <<>>
    /\ pt_value' = to_absolute(pt_point, pt_size.width, pt_size.height)
    /\ pt_trace' = <<"to_absolute">>
    /\ UNCHANGED <<pt_point, pt_size, exec_vars, retry_vars, agent_vars, backoff_vars,
                   deco_vars, cap_vars>>

\* to_percentage(width, height) of pt_point, or of the Point to_absolute
\* returned
PointToPercentage ==
    /\ \/ pt_trace = <<>> /\
          pt_value' = to_percentage(pt_point, pt_size.width, pt_size.height)
       \/ pt_trace = <<"to_absolute">> /\ pt_value.kind = "point" /\
          pt_value' = to_percentage(pt_value.point, pt_size.width, pt_size.height)
    /\ pt_trace' = Append(pt_trace, "to_percentage")
    /\ UNCHANGED <<pt_point, pt_size, exec_vars, retry_vars, agent_vars, backoff_vars,
                   deco_vars, cap_vars>>

\* controller.resolve_point(point = pt_point), no label and no elements
PointResolve ==
    /\ pt_trace = <<>>
    /\ pt_value' = [kind |-> "resolved",
                    out |-> resolve_point(PointController, pt_point, NoneStr, <<>>)]
    /\ pt_trace' = <<"resolve_point">>
    /\ UNCHANGED <<pt_point, pt_size, exec_vars, retry_vars, agent_vars, backoff_vars,
                   deco_vars, cap_vars>>

\* execute(Action(CLICK, coordinate = pt_point, element_label = label)) on an
\* ActionExecutor whose element list is `elements`
PointExecute(label, elements) ==
    /\ pt_trace = <<>>
    /\ LET a == Action("click", pt_point, label, NoneStr, <<>>, NoPoint, NoneStr)
           r == execute(PointController, a, elements) IN
       pt_value' = [kind |-> "executed", label |-> label, elements |-> elements,
                    result |-> r.result, calls |-> r.calls]
    /\ pt_trace' = <<"execute">>
    /\ UNCHANGED <<pt_point, pt_size, exec_vars, retry_vars, agent_vars, backoff_vars,
                   deco_vars, cap_vars>>

NextPoint ==
    \/ PointToAbsolute
    \/ PointToPercentage
    \/ PointResolve
    \/ \E l \in {NoneStr, "~1", "~9"}, e \in ElementLists : PointExecute(l, e)

SpecPoint == InitPoint /\ [][NextPoint]_vars

\* ------------------------------------------------------------------
\* Properties of the Point conversions
\* ------------------------------------------------------------------
\* what C17 says of every operation but execute: each fails on the Point
ElementLabelPointRejected ==
    /\ pt_trace = <<"to_absolute">> =>
          pt_value = ConversionRaised(Exc("ValueError",
              "Cannot convert ELEMENT_LABEL to absolute without element info"))
    /\ pt_trace = <<"to_percentage">> =>
          pt_value = ConversionRaised(Exc("ValueError",
              "Cannot convert ELEMENT_LABEL to percentage without element info"))
    /\ pt_trace = <<"resolve_point">> =>
          pt_value.out = Raised(Exc("ValueError",
              "Point with ELEMENT_LABEL type requires elements list"))

\* C17 (as stated): a Point of coordinate type ELEMENT_LABEL is never
\* resolved to pixels: resolve_point given it and no label fails, to_absolute
\* and to_percentage fail on it, and an action carrying it yields a failed
\* ActionResult with no mouse or keyboard primitive invoked.
C17_AsStated ==
    pt_point.ctype = "ELEMENT_LABEL" =>
        /\ ElementLabelPointRejected
        /\ pt_trace = <<"execute">> =>
              (pt_value.result.success = FALSE /\ pt_value.calls = <<>>)

\* C17 (amended): as stated, except that an action carrying the Point fails
\* with no primitive invoked unless it also carries an element label that is
\* looked up (the element list is not empty) and found; then the action is
\* carried out at the centre of that element, the x and y of the Point
\* playing no part.
C17_ElementLabelPoint ==
    pt_point.ctype = "ELEMENT_LABEL" =>
        /\ ElementLabelPointRejected
        /\ pt_trace = <<"execute">> =>
              LET looked_up == StrTruthy(pt_value.label) /\ pt_value.elements # <<>>
                  i == FirstWithLabel(pt_value.elements, pt_value.label) IN
              IF looked_up /\ i # 0
              THEN /\ pt_value.result.success
                   /\ Len(pt_value.calls) = 1
                   /\ pt_value.calls[1].pos =
                        <<PyInt(center(pt_value.elements[i].rect).x),
                          PyInt(center(pt_value.elements[i].rect).y)>>
              ELSE /\ pt_value.result.success = FALSE
                   /\ pt_value.calls = <<>>
                   /\ ~looked_up => pt_value.result.error =
                        "Point with ELEMENT_LABEL type requires elements list"

\* C17 witness: a click carrying the ELEMENT_LABEL Point (1.5, 0.75) and no
\* label failed with the unsupported-type error, no primitive invoked
C17_Witness ==
    /\ pt_point = Point(6, 3, "ELEMENT_LABEL") /\ pt_trace = <<"execute">>
    /\ pt_value.label = NoneStr
    /\ pt_value.result.success = FALSE /\ pt_value.calls = <<>>
    /\ pt_value.result.error = "Point with ELEMENT_LABEL type requires elements list"

\* the integer r is v = n / CoordDen rounded down
RoundedDown(r, n) == r * CoordDen <= n /\ n < (r + 1) * CoordDen

\* the integer r is v = n / CoordDen with its fraction dropped (rounded
\* toward zero)
TowardZero(r, n) ==
    IF n >= 0 THEN RoundedDown(r, n)
    ELSE (r - 1) * CoordDen < n /\ n <= r * CoordDen

\* pt_point is a PERCENTAGE point that to_absolute or resolve_point has
\* converted to the pixel position <<x, y>>
PercentagePixels ==
    IF pt_trace = <<"to_absolute">> /\ pt_value.kind = "point"
    THEN <<pt_value.point.x \div CoordDen, pt_value.point.y \div CoordDen>>
    ELSE pt_value.out.pos

PercentageConverted ==
    /\ pt_point.ctype = "PERCENTAGE"
    /\ \/ pt_trace = <<"to_absolute">> /\ pt_value.kind = "point"
                /\ pt_value.point.ctype = "ABSOLUTE"
                /\ pt_value.point.x % CoordDen = 0 /\ pt_value.point.y % CoordDen = 0
       \/ pt_trace = <<"resolve_point">> /\ pt_value.out.exc = NoExc

\* C18 (as stated): for every PERCENTAGE point (px, py), not restricted to
\* [0, 1], and every screen size (w, h), to_absolute and resolve_point yield
\* exactly (floor(px * w), floor(py * h)), an ABSOLUTE position.
C18_AsStated ==
    (pt_point.ctype = "PERCENTAGE" /\ pt_trace \in {<<"to_absolute">>, <<"resolve_point">>}) =>
        /\ PercentageConverted
        /\ RoundedDown(PercentagePixels[1], pt_point.x * pt_size.width)
        /\ RoundedDown(PercentagePixels[2], pt_point.y * pt_size.height)

\* C18 (amended): for every PERCENTAGE point (px, py) and every screen size
\* (w, h), to_absolute and resolve_point yield exactly (px * w, py * h) with
\* the fractions dropped, i.e. rounded toward zero, an ABSOLUTE position;
\* that is (floor(px * w), floor(py * h)) when px >= 0 and py >= 0.
C18_PercentageTruncates ==
    (pt_point.ctype = "PERCENTAGE" /\ pt_trace \in {<<"to_absolute">>, <<"resolve_point">>}) =>
        /\ PercentageConverted
        /\ TowardZero(PercentagePixels[1], pt_point.x * pt_size.width)
        /\ TowardZero(PercentagePixels[2], pt_point.y * pt_size.height)
        /\ pt_point.x >= 0 =>
              RoundedDown(PercentagePixels[1], pt_point.x * pt_size.width)
        /\ pt_point.y >= 0 =>
              RoundedDown(PercentagePixels[2], pt_point.y * pt_size.height)

\* C18 witness: the PERCENTAGE point (-0.25, -0.25) on an 8 x 6 screen is
\* (-2, -1.5) in pixels, and to_absolute returned (-2, -1)
C18_Witness ==
    /\ pt_point = Point(-1, -1, "PERCENTAGE") /\ CoordDen = 4
    /\ pt_size = Size(8, 6) /\ pt_trace = <<"to_absolute">>
    /\ PercentageConverted /\ PercentagePixels = <<-2, -1>>

\* |a - b| < 1 / w for the quotients a and b (w > 0)
CloserThan(a, b, w) ==
    LET diff == a.n * b.d - b.n * a.d
        dist == IF diff >= 0 THEN diff ELSE -diff IN
    dist * w < a.d * b.d

\* C19: for every PERCENTAGE point p and screen size (w, h) with w, h > 0,
\* p.to_absolute(w, h).to_percentage(w, h) is a PERCENTAGE point whose x and
\* y differ from those of p by less than 1/w and 1/h; and to_percentage on a
\* PERCENTAGE point returns it unchanged.
C19_RoundTrip ==
    pt_point.ctype = "PERCENTAGE" =>
        /\ pt_trace = <<"to_absolute", "to_percentage">> =>
              /\ pt_value.kind = "quotients"
              /\ pt_value.ctype = "PERCENTAGE"
              /\ CloserThan(pt_value.x, Quotient(pt_point.x, CoordDen), pt_size.width)
              /\ CloserThan(pt_value.y, Quotient(pt_point.y, CoordDen), pt_size.height)
        /\ pt_trace = <<"to_percentage">> => pt_value = Converted(pt_point)

\* C19 witness: (0.75, 0.75) on a 3 x 5 screen goes to (2, 3) and back to
\* (2/3, 3/5)
C19_Witness ==
    /\ pt_point = Point(3, 3, "PERCENTAGE") /\ CoordDen = 4
    /\ pt_size = Size(3, 5) /\ pt_trace = <<"to_absolute", "to_percentage">>
    /\ pt_value.kind = "quotients"
    /\ pt_value.x = Quotient(2 * CoordDen, 3 * CoordDen)
    /\ pt_value.y = Quotient(3 * CoordDen, 5 * CoordDen)

\* ------------------------------------------------------------------
\* Sequencing of the async run
\* ------------------------------------------------------------------
\* the positions of run() at which a phase of the current step is awaited:
\* the two captures, detection, annotation, the screen-size query, the
\* decision, the execution, the result callback and should_continue
PhasePositions ==
    {"capture", "encode", "detect", "annotate", "state", "think", "execute",
     "callback", "continue"}

\* the phases in progress: the one run() is awaiting, and every think that
\* timed out and has not returned in its worker thread
InProgress ==
    (IF pc \in PhasePositions THEN {[step |-> current_step, phase |-> pc]} ELSE {})
        \cup {[step |-> k, phase |-> "think"] : k \in g.detached}

\* the state part of C20
C20_Inv ==
    variant = "async" =>
        /\ Cardinality(InProgress) <= 1
        /\ \A x \in InProgress : x.step = current_step

\* the step part of C20: the capture of step k+1 begins at the head of the
\* loop with no phase in progress, and a step begins nowhere else
C20_Step ==
    variant = "async" =>
        /\ (pc' = "capture" /\ pc # "capture") =>
              (pc = "loop" /\ InProgress = {} /\ current_step' = current_step + 1)
        /\ (current_step' # current_step /\ pc' # "capture") =>
              (pc \in {"idle", "done"} /\ pc' = "loop" /\ current_step' = 0)

\* C20: within one AsyncComputerAgent.run, steps and phases are strictly
\* sequential for every interleaving of worker-pool completions, decision
\* timeouts and cancel() calls: at most one phase is in progress at any
\* moment, and the capture of step k+1 begins only after every phase of
\* step k has finished.
C20_Sequential == []C20_Inv /\ [][C20_Step]_vars

\* C20 witness: cancel() came during step 1, and the think of step 2 timed
\* out and is still running in its worker thread when the run has ended
C20_Witness ==
    /\ variant = "async" /\ pc = "done" /\ current_step = 2
    /\ g.cancel_called /\ g.last_think = "timeout" /\ g.detached = {2}
    /\ Len(history) = 1

\* ------------------------------------------------------------------
\* C21, C22: one state machine, run afresh each time
\* ------------------------------------------------------------------
\* what a run came to
Outcome(r, step, hist) == [ret |-> r, current_step |-> step, history |-> hist]

\* The loop of spec section 4.4 played on a script: the answers of think
\* (an Action, NoAction, or Timeout), the results of execute and the answers
\* of should_continue, each in the order they were given, with at most
\* `limit` steps. A script that ends before the run does leaves it unfinished
RECURSIVE Replay(_, _, _, _, _, _)
Replay(decisions, results, answers, limit, step, hist) ==
    IF ~(step < limit) THEN Outcome("False", step, hist)
    ELSE IF decisions = <<>> THEN Outcome("Unfinished", step + 1, hist)
    ELSE IF Head(decisions) \in {NoAction, Timeout} THEN Outcome("True", step + 1, hist)
    ELSE IF results = <<>> \/ answers = <<>> THEN Outcome("Unfinished", step + 1, hist)
    ELSE LET h == Append(hist, <<Head(decisions), Head(results)>>) IN
         IF ~Head(answers) THEN Outcome("True", step + 1, h)
         ELSE Replay(Tail(decisions), Tail(results), Tail(answers), limit, step + 1, h)

\* the results execute() gave during this run, in order
ExecuteResults == [i \in DOMAIN g.executed |-> g.executed[i][2]]

\* a run is over that no collaborator's exception left
RunReturned == pc = "done" /\ g.runs > 0 /\ g.raised = "none"

\* a run without decision timeout and without cancel()
Undisturbed == ~g.cancel_called /\ g.last_think # "timeout"

\* C21: the synchronous and the asynchronous agent implement the same state
\* machine: with no decision timeout and no cancel(), what a run returns, its
\* final current_step and its history are one and the same function of the
\* brain's decisions, the results of execute and max_steps, whichever of the
\* two agents ran
C21_SameStateMachine ==
    (RunReturned /\ Undisturbed) =>
        Outcome(ret, current_step, history)
            = Replay(g.decisions, ExecuteResults, g.answers, max_steps, 0, <<>>)

\* the asynchronous agent has run two steps, the first of which failed, and
\* was stopped by the brain's should_continue
C21_Witness ==
    /\ RunReturned /\ Undisturbed /\ variant = "async"
    /\ Len(history) = 2 /\ ~history[1][2].success /\ history[2][2].success
    /\ g.answers = <<TRUE, FALSE>> /\ ret = "True"

\* the number of steps a run can take: max_steps, or the steps begun when
\* cancel() was called during the run
StepsAllowed ==
    IF g.cancel_called /\ g.cancel_step < max_steps THEN g.cancel_step ELSE max_steps

\* a finished run came to what its own script makes of it
C22_Inv ==
    RunReturned =>
        Outcome(ret, current_step, history)
            = Replay(g.decisions, ExecuteResults, g.answers, StepsAllowed, 0, <<>>)

\* entering run() resets the step counter and the history
C22_Step ==
    (pc \in {"idle", "done"} /\ pc' = "loop") => (current_step' = 0 /\ history' = <<>>)

\* C22: the loop is reusable: every run starts from step counter 0 and an
\* empty history, and what it returns, its final current_step and its history
\* are determined by what the brain and the collaborators do during that run
\* (and when cancel() is called during it), not by how the run before ended
C22_Reusable == []C22_Inv /\ [][C22_Step]_vars

\* a second run on an agent whose first run was cancelled has taken two
\* steps and was ended by the brain
C22_Witness ==
    /\ RunReturned /\ g.runs = 2 /\ g.earlier = "cancelled"
    /\ ret = "True" /\ current_step = 2 /\ Len(history) = 1

\* ------------------------------------------------------------------
\* C23: action types without a dispatch branch
\* ------------------------------------------------------------------
\* the action types _execute_action has a branch for
DispatchedTypes == MouseTypes \cup KeyTypes \cup {"wait", "screenshot"}

\* C23 (as stated): an action whose type has no dispatch branch (focus_window,
\* get_window_info, or a type that is no ActionType member) always yields a
\* failed ActionResult reporting an unknown action type, and no mouse or
\* keyboard primitive is invoked, whatever coordinate and label it carries.
C23_AsStated ==
    (x_pc # "idle" /\ x_action.action_type \notin DispatchedTypes) =>
        /\ x_pc = "returned"
        /\ ~x_result.success
        /\ x_result.error = "Unknown action type"
        /\ x_calls = <<>>

\* ------------------------------------------------------------------
\* Backoff strategies (retry.py). Delays and parameters are Python floats,
\* modelled as exact fractions n/d with d > 0
\* ------------------------------------------------------------------
\* the largest attempt index a strategy is called with
MaxAttemptIndex == 10

\* the number of values the random generator hands out
MaxDraws == 3

RECURSIVE GCD(_, _)
GCD(a, b) == IF b = 0 THEN a ELSE GCD(b, a % b)

Abs(n) == IF n < 0 THEN -n ELSE n

\* the fraction n/d in lowest terms
Frac(n, d) ==
    LET k == GCD(Abs(n), d) IN Quotient(n \div k, d \div k)

Whole(n) == Quotient(n, 1)

\* float arithmetic and comparison
FAdd(a, b) == Frac(a.n * b.d + b.n * a.d, a.d * b.d)
FSub(a, b) == Frac(a.n * b.d - b.n * a.d, a.d * b.d)
FMul(a, b) == Frac(a.n * b.n, a.d * b.d)
FLeq(a, b) == a.n * b.d <= b.n * a.d
FLess(a, b) == a.n * b.d < b.n * a.d

\* Python min(a, b) and max(a, b): the first argument unless the second is
\* smaller (larger)
FMin(a, b) == IF FLess(b, a) THEN b ELSE a
FMax(a, b) == IF FLess(a, b) THEN b ELSE a

\* multiplier ** attempt
RECURSIVE FPow(_, _)
FPow(m, k) == IF k = 0 THEN Whole(1) ELSE FMul(m, FPow(m, k - 1))

\* random.uniform(a, b) is a + (b - a) * random(), the generator handing out r
uniform(a, b, r) == FAdd(a, FMul(FSub(b, a), r))

\* the attempt indices a strategy is called with: the first ones, and a late one
AttemptIndices == 0..4 \cup {MaxAttemptIndex}

\* the values random() hands out; uniform may reach its end point by rounding
UnitDraws == {Quotient(0, 1), Quotient(1, 4), Quotient(1, 1)}

\* constant_backoff(delay): strategy(attempt)
constant_backoff(s, i) == s.delay

\* linear_backoff(base, increment, max_delay): strategy(attempt)
linear_backoff(s, i) ==
    FMin(FAdd(s.base, FMul(s.increment, Whole(i))), s.max_delay)

\* an exponential strategy that forgets the cap
exponential_backoff_uncapped(s, i) == FMul(s.base, FPow(s.multiplier, i))

\* exponential_backoff(base, multiplier, max_delay): strategy(attempt)
exponential_backoff(s, i) ==
    LET delay == FMul(s.base, FPow(s.multiplier, i)) IN
    FMin(delay, s.max_delay)

\* fibonacci_backoff: a, b = 1, 1; for _ in range(k): a, b = b, a + b
RECURSIVE FibLoop(_, _, _)
FibLoop(a, b, k) == IF k <= 0 THEN b ELSE FibLoop(b, a + b, k - 1)

\* fibonacci_backoff(base, max_delay): strategy(attempt)
fibonacci_backoff(s, i) ==
    IF i <= 1 THEN s.base
    ELSE FMin(FMul(s.base, Whole(FibLoop(1, 1, i - 1))), s.max_delay)

\* random_backoff(min_delay, max_delay): strategy(attempt), the generator
\* handing out r
random_backoff(s, i, r) == uniform(s.min_delay, s.max_delay, r)

\* a jitter that is not clamped at 0
jittered_backoff_unclamped(s, delay, r) ==
    LET jitter == FMul(FMul(delay, s.jitter_factor), uniform(Whole(-1), Whole(1), r)) IN
    FAdd(delay, jitter)

\* a jitter that adds the factor itself, not the factor's share of the delay
jittered_backoff_absolute(s, delay, r) ==
    LET jitter == FMul(s.jitter_factor, uniform(Whole(-1), Whole(1), r)) IN
    FMax(Whole(0), FAdd(delay, jitter))

\* jittered_backoff(base_strategy, jitter_factor): strategy(attempt), where
\* base_strategy(attempt) returned `delay` and the generator hands out r
jittered_backoff(s, delay, r) ==
    LET jitter == FMul(FMul(delay, s.jitter_factor), uniform(Whole(-1), Whole(1), r)) IN
    FMax(Whole(0), FAdd(delay, jitter))

\* one call strategy(attempt): the delay it returns, the delay of the base
\* strategy (its own, unless it is a jitter), and how many values it drew.
\* draws are the values the generator hands out next, in order
CallRecord(i, delay, base, draws) ==
    [attempt |-> i, delay |-> delay, base |-> base, draws |-> draws]

RECURSIVE strategy(_, _, _)
strategy(s, i, draws) ==
    CASE s.kind = "constant" ->
            LET v == constant_backoff(s, i) IN CallRecord(i, v, v, 0)
      [] s.kind = "linear" ->
            LET v == linear_backoff(s, i) IN CallRecord(i, v, v, 0)
      [] s.kind = "exponential" ->
            LET v == exponential_backoff(s, i) IN CallRecord(i, v, v, 0)
      [] s.kind = "fibonacci" ->
            LET v == fibonacci_backoff(s, i) IN CallRecord(i, v, v, 0)
      [] s.kind = "random" ->
            LET v == random_backoff(s, i, draws[1]) IN CallRecord(i, v, v, 1)
      [] s.kind = "jittered" ->
            LET b == strategy(s.base_strategy, i, draws)
                v == jittered_backoff(s, b.delay, draws[b.draws + 1]) IN
            CallRecord(i, v, b.delay, b.draws + 1)

\* the strategies the factories are asked for
Constant(delay) == [kind |-> "constant", delay |-> delay]
Linear(base, increment, max_delay) ==
    [kind |-> "linear", base |-> base, increment |-> increment, max_delay |-> max_delay]
Exponential(base, multiplier, max_delay) ==
    [kind |-> "exponential", base |-> base, multiplier |-> multiplier,
     max_delay |-> max_delay]
Fibonacci(base, max_delay) == [kind |-> "fibonacci", base |-> base, max_delay |-> max_delay]
Random(min_delay, max_delay) ==
    [kind |-> "random", min_delay |-> min_delay, max_delay |-> max_delay]
Jittered(base_strategy, jitter_factor) ==
    [kind |-> "jittered", base_strategy |-> base_strategy, jitter_factor |-> jitter_factor]

PlainStrategies ==
    {Constant(Quotient(1, 2)), Constant(Whole(1)), Constant(Whole(-1)),
     Linear(Quotient(1, 10), Quotient(1, 5), Whole(1)),
     Fibonacci(Quotient(1, 10), Whole(10)), Fibonacci(Quotient(1, 10), Quotient(1, 4)),
     Random(Quotient(1, 10), Whole(1))}
        \cup {Exponential(b, m, c) :
                b \in {Quotient(1, 10), Quotient(1, 5), Whole(1)},
                m \in {Quotient(1, 2), Whole(1), Whole(2), Whole(3)},
                c \in {Whole(2), Whole(5), Whole(30)}}

JitterBases ==
    {Constant(Whole(1)), Constant(Whole(-1)), Exponential(Quotient(1, 5), Whole(2), Whole(5))}

JitterFactors == {Whole(0), Quotient(1, 10), Whole(2), Quotient(-1, 2)}

BackoffStrategies ==
    PlainStrategies
        \cup {Jittered(b, f) : b \in JitterBases, f \in JitterFactors}
        \cup {Jittered(Random(Quotient(1, 10), Whole(1)), Quotient(1, 10))}

\* how many values one call of the strategy draws from the generator
RECURSIVE Draws(_)
Draws(s) ==
    CASE s.kind = "random" -> 1
      [] s.kind = "jittered" -> Draws(s.base_strategy) + 1
      [] OTHER -> 0

\* the values the generator can hand out to one call of the strategy
DrawSequences(s) == [1..Draws(s) -> UnitDraws]

\* a factory has returned a strategy; it has not been called
InitBackoff ==
    /\ b_strategy \in BackoffStrategies
    /\ b_last = NoCall /\ b_prev = NoCall /\ b_rng = 0
    /\ ExecIdle /\ RetryIdle /\ AgentIdle /\ PointIdle /\ DecoIdle /\ CapIdle

\* strategy(attempt) is called, the generator handing out `draws`
BackoffCall(i, draws) ==
    /\ b_rng < MaxDraws
    /\ LET call == strategy(b_strategy, i, draws) IN
        /\ b_last' = call
        /\ b_rng' = b_rng + call.draws
    /\ b_prev' = b_last
    /\ UNCHANGED <<b_strategy, exec_vars, retry_vars, agent_vars, point_vars, deco_vars, cap_vars>>

NextBackoff ==
    \E i \in AttemptIndices, draws \in DrawSequences(b_strategy) :
        BackoffCall(i, draws)

SpecBackoff == InitBackoff /\ [][NextBackoff]_vars

\* ------------------------------------------------------------------
\* C24 .. C27: the backoff strategies
\* ------------------------------------------------------------------
\* the strategy has been called (twice)
Called == b_last # NoCall
CalledTwice == b_last # NoCall /\ b_prev # NoCall

\* the last two calls passed the same attempt index
SameIndex == CalledTwice /\ b_prev.attempt = b_last.attempt

\* the factory was given no negative parameter
RECURSIVE NonNegativeParameters(_)
NonNegativeParameters(s) ==
    LET nn(q) == FLeq(Whole(0), q) IN
    CASE s.kind = "constant" -> nn(s.delay)
      [] s.kind = "linear" -> nn(s.base) /\ nn(s.increment) /\ nn(s.max_delay)
      [] s.kind = "exponential" -> nn(s.base) /\ nn(s.multiplier) /\ nn(s.max_delay)
      [] s.kind = "fibonacci" -> nn(s.base) /\ nn(s.max_delay)
      [] s.kind = "random" -> nn(s.min_delay) /\ nn(s.max_delay)
      [] s.kind = "jittered" -> nn(s.jitter_factor) /\ NonNegativeParameters(s.base_strategy)

\* the strategies that call random.uniform
DrawingKinds == {"random", "jittered"}

\* C24 (as stated): every backoff strategy (built from non-negative
\* parameters) is a pure function of the attempt index: two calls with the
\* same index return the same delay, the delay is non-negative, and the call
\* changes no state.
C24_AsStated ==
    NonNegativeParameters(b_strategy) =>
        /\ SameIndex => b_prev.delay = b_last.delay
        /\ Called => FLeq(Whole(0), b_last.delay)
        /\ b_rng = 0

\* C24 (amended): the constant, linear, exponential and Fibonacci strategies
\* are pure functions of the attempt index: same index, same delay, and no
\* state changed. random_backoff and jittered_backoff draw from the random
\* generator at every call (one value each, after the draws of the base
\* strategy); random_backoff returns a delay between min_delay and max_delay
\* and jittered_backoff never a negative one. Every strategy built from
\* non-negative parameters returns a non-negative delay.
C24_PureUnlessDrawing ==
    /\ b_strategy.kind \notin DrawingKinds =>
          /\ SameIndex => b_prev.delay = b_last.delay
          /\ b_rng = 0
    /\ (Called /\ b_strategy.kind \in DrawingKinds) =>
          /\ b_last.draws = Draws(b_strategy) /\ b_last.draws >= 1
          /\ b_rng >= b_last.draws
    /\ (Called /\ b_strategy.kind = "random") =>
          /\ FLeq(b_strategy.min_delay, b_last.delay)
          /\ FLeq(b_last.delay, b_strategy.max_delay)
    /\ (Called /\ b_strategy.kind = "jittered") => FLeq(Whole(0), b_last.delay)
    /\ (Called /\ NonNegativeParameters(b_strategy)) => FLeq(Whole(0), b_last.delay)

\* two calls of a jittered strategy with the same attempt index returned
\* different delays, both drawn from the generator
C24_Witness ==
    /\ b_strategy = Jittered(Constant(Whole(1)), Quotient(1, 10))
    /\ SameIndex /\ b_prev.delay # b_last.delay
    /\ b_rng = 2

\* C25: exponential_backoff(base, multiplier, max_delay) maps the attempt
\* index n to min(base * multiplier^n, max_delay); the delay never exceeds
\* max_delay and, for base > 0 and multiplier >= 1, is non-decreasing in n
\* (0.1, 2, cap 2.0 at n = 3 gives 0.8; cap 5.0 at n = 10 gives 5.0)
C25_Exponential ==
    (Called /\ b_strategy.kind = "exponential") =>
        LET s == b_strategy
            power == FMul(s.base, FPow(s.multiplier, b_last.attempt)) IN
        /\ b_last.delay = (IF FLeq(power, s.max_delay) THEN power ELSE s.max_delay)
        /\ FLeq(b_last.delay, s.max_delay)
        /\ (/\ CalledTwice /\ b_prev.attempt <= b_last.attempt
            /\ FLess(Whole(0), s.base) /\ FLeq(Whole(1), s.multiplier))
              => FLeq(b_prev.delay, b_last.delay)
        /\ (s = Exponential(Quotient(1, 10), Whole(2), Whole(2)) /\ b_last.attempt = 3)
              => b_last.delay = Quotient(4, 5)
        /\ (s = Exponential(Quotient(1, 10), Whole(2), Whole(5)) /\ b_last.attempt = 10)
              => b_last.delay = Whole(5)

\* exponential_backoff(0.1, 2, 5.0) was called with 3 and then with 10: 0.8
\* below the cap, then the cap
C25_Witness ==
    /\ b_strategy = Exponential(Quotient(1, 10), Whole(2), Whole(5))
    /\ b_prev.attempt = 3 /\ b_prev.delay = Quotient(4, 5)
    /\ b_last.attempt = 10 /\ b_last.delay = Whole(5)

\* the sequence 1, 1, 1, 2, 3 the test gives for the attempts 0 .. 4
TestedFibonacci(i) == IF i <= 2 THEN 1 ELSE i - 1

\* C26 (as stated): fibonacci_backoff(base, max_delay) yields base at the
\* attempts 0, 1 and 2, base * 2 at attempt 3 and base * 3 at attempt 4,
\* capped at max_delay.
C26_AsStated ==
    (Called /\ b_strategy.kind = "fibonacci" /\ b_last.attempt <= 4) =>
        b_last.delay = FMin(FMul(b_strategy.base, Whole(TestedFibonacci(b_last.attempt))),
                            b_strategy.max_delay)

\* C27: jittered_backoff(base_strategy, f) with f >= 0 returns, whenever the
\* base strategy's delay d is >= 0, a delay within [d * (1 - f), d * (1 + f)]
\* that is never below 0, whatever perturbation is drawn
C27_JitterRange ==
    (/\ Called /\ b_strategy.kind = "jittered"
     /\ FLeq(Whole(0), b_strategy.jitter_factor) /\ FLeq(Whole(0), b_last.base)) =>
        LET f == b_strategy.jitter_factor
            dd == b_last.base IN
        /\ FLeq(FMul(dd, FSub(Whole(1), f)), b_last.delay)
        /\ FLeq(b_last.delay, FMul(dd, FAdd(Whole(1), f)))
        /\ FLeq(Whole(0), b_last.delay)

\* a jitter of factor 2 over the constant delay 1.0 returned 3.0 and then,
\* clamped, 0
C27_Witness ==
    /\ b_strategy = Jittered(Constant(Whole(1)), Whole(2))
    /\ b_prev.delay = Whole(3) /\ b_last.delay = Whole(0)
    /\ b_last.base = Whole(1)

\* ------------------------------------------------------------------
\* The retry decorator (retry.py): wrapper calls of a decorated function
\* ------------------------------------------------------------------
\* the wrapper calls made on one decorated function
MaxWrapperCalls == 2

\* retry(max_attempts, backoff, retryable_exceptions, on_retry): the
\* arguments the wrapper closes over (retryable_exceptions None is [Exception])
DecoConfig(n, retryable, on_retry) ==
    [max_attempts |-> n, retryable_exceptions |-> retryable, on_retry |-> on_retry]

DecoConfigs ==
    {DecoConfig(n, r, c) :
        n \in 0..MaxAttemptsBound,
        r \in {{"Exception"}, {"ValueError"}, {"ValueError", "OSError"}, {}},
        c \in BOOLEAN}

\* what one invocation of func does: it returns a value or raises
Returns(v) == [kind |-> "return", value |-> v]
Raises(e) == [kind |-> "raise", exc |-> e]
FuncOutcomes ==
    {Returns(v) : v \in {"success", NoneStr}}
        \cup {Raises(Exc(t, "Not yet")) : t \in ExcTypes}

\* a check that takes every exception for retryable
is_retryable_always(cfg, e) == TRUE

\* is_retryable = any(isinstance(e, exc_type) for exc_type in retryable_exceptions)
is_retryable(cfg, e) == \E t \in cfg.retryable_exceptions : isinstance(e, t)

\* attempt >= max_attempts - 1
WrapperLastAttempt(cfg, n) == n >= cfg.max_attempts - 1

\* what the wrapper does between two invocations: delay = backoff(attempt),
\* on_retry(attempt + 1, e) if given, time.sleep(delay)
WrapperRetryEvents(cfg, n, e) ==
    <<[ev |-> "backoff", attempt |-> n]>>
        \o (IF cfg.on_retry THEN <<[ev |-> "on_retry", n |-> n + 1, error |-> e]>> ELSE <<>>)
        \o <<[ev |-> "sleep", attempt |-> n]>>

\* @retry(...) has decorated a function; the wrapper has not been called
InitDeco ==
    /\ d_config \in DecoConfigs
    /\ d_pc = "idle" /\ d_attempt = 0 /\ d_last_exception = NoExc /\ d_out = NoOutput
    /\ d_invocations = 0 /\ d_trace = <<>> /\ d_events = <<>> /\ d_calls = 0
    /\ ExecIdle /\ RetryIdle /\ AgentIdle /\ PointIdle /\ BackoffIdle /\ CapIdle

\* the wrapper is called: last_exception = None and the for loop over
\* range(max_attempts) begins; with max_attempts <= 0 the loop body never
\* runs and `raise last_exception` raises a TypeError
WrapperEnter ==
    /\ d_pc \in {"idle", "returned", "raised"}
    /\ d_calls < MaxWrapperCalls
    /\ d_calls' = d_calls + 1
    /\ d_attempt' = 0 /\ d_last_exception' = NoExc
    /\ d_invocations' = 0 /\ d_trace' = <<>> /\ d_events' = <<>>
    /\ IF d_config.max_attempts <= 0
       THEN /\ d_pc' = "raised"
            /\ d_out' = Raises(Exc("TypeError", "exceptions must derive from BaseException"))
       ELSE /\ d_pc' = "loop"
            /\ d_out' = NoOutput
    /\ UNCHANGED <<d_config, exec_vars, retry_vars, agent_vars, point_vars, backoff_vars,
                   cap_vars>>

\* one pass of the loop body: func is invoked and does `outcome`. A returned
\* value is returned; an exception is re-raised if it is not retryable or
\* this was the last attempt, and otherwise followed by backoff, on_retry,
\* sleep and the next attempt
WrapperAttempt(outcome) ==
    /\ d_pc = "loop"
    /\ d_invocations' = d_invocations + 1
    /\ d_trace' = Append(d_trace, outcome)
    /\ IF outcome.kind = "return"
       THEN /\ d_out' = outcome /\ d_pc' = "returned"
            /\ UNCHANGED <<d_attempt, d_last_exception, d_events>>
       ELSE /\ d_last_exception' = outcome.exc
            /\ IF ~is_retryable(d_config, outcome.exc) \/ WrapperLastAttempt(d_config, d_attempt)
               THEN /\ d_out' = outcome /\ d_pc' = "raised"
                    /\ UNCHANGED <<d_attempt, d_events>>
               ELSE /\ d_events' = d_events \o WrapperRetryEvents(d_config, d_attempt, outcome.exc)
                    /\ d_attempt' = d_attempt + 1
                    /\ UNCHANGED <<d_out, d_pc>>
    /\ UNCHANGED <<d_config, d_calls, exec_vars, retry_vars, agent_vars, point_vars,
                   backoff_vars, cap_vars>>

NextDeco ==
    \/ WrapperEnter
    \/ \E o \in FuncOutcomes : WrapperAttempt(o)

SpecDeco == InitDeco /\ [][NextDeco]_vars

\* ------------------------------------------------------------------
\* C28: the retry decorator
\* ------------------------------------------------------------------
\* invocation k of func raised an exception matching retryable_exceptions
RaisedRetryable(k) ==
    /\ d_trace[k].kind = "raise"
    /\ \E t \in d_config.retryable_exceptions : t \in Bases(d_trace[k].exc.type)

\* C28: a function wrapped by the retry decorator with max_attempts = N >= 1
\* and retryable types R is invoked again only after raising an exception
\* matching R and only while fewer than N invocations have been made; the
\* wrapper returns the first value the function returns and otherwise
\* re-raises the exception of the last invocation. A function that always
\* raises a retryable exception is invoked exactly N times, one that raises
\* a non-retryable exception exactly once
C28_Decorator ==
    (d_config.max_attempts >= 1 /\ d_pc # "idle") =>
        LET n == Len(d_trace) IN
        /\ d_invocations = n /\ n <= d_config.max_attempts
        /\ \A k \in 1..(n - 1) : RaisedRetryable(k)
        /\ d_pc = "loop" => (n < d_config.max_attempts /\ \A k \in 1..n : RaisedRetryable(k))
        /\ d_pc = "returned" => (n >= 1 /\ d_trace[n].kind = "return" /\ d_out = d_trace[n])
        /\ d_pc = "raised" =>
              /\ n >= 1 /\ d_trace[n].kind = "raise" /\ d_out = d_trace[n]
              /\ RaisedRetryable(n) => n = d_config.max_attempts
              /\ ~RaisedRetryable(1) => n = 1

\* with max_attempts = 3 and ValueError retryable the function raised
\* ValueError twice and then returned "success", which the wrapper returned
C28_Witness ==
    /\ d_config.max_attempts = 3 /\ d_config.retryable_exceptions = {"ValueError"}
    /\ d_pc = "returned" /\ d_invocations = 3
    /\ d_trace[1] = Raises(Exc("ValueError", "Not yet"))
    /\ d_trace[2] = Raises(Exc("ValueError", "Not yet"))
    /\ d_out = Returns("success")

\* ------------------------------------------------------------------
\* C29, C30: what execute_with_retry does around the attempts
\* ------------------------------------------------------------------
\* what lies between the attempt with index i and the next one
Between(i) ==
    <<[ev |-> "retry_count"], [ev |-> "backoff", attempt |-> i]>>
        \o (IF config.callbacks THEN <<[ev |-> "on_retry", n |-> i + 1]>> ELSE <<>>)
        \o <<[ev |-> "sleep", attempt |-> i]>>

RECURSIVE BetweenAll(_)
BetweenAll(k) == IF k <= 0 THEN <<>> ELSE BetweenAll(k - 1) \o Between(k - 1)

\* the events of the call that are not the on_failure callback
RetryPart == SelectSeq(r_events, LAMBDA x : x.ev # "on_failure")

\* after k + 1 invocations (k while the next one is pending) the call has
\* done the k retry steps of the attempts 0 .. k-1, each in order, and
\* nothing else: none follows the last invocation of a call that returned
C29_Inv ==
    r_pc \in {"loop", "returned"} =>
        /\ RetryPart = BetweenAll(attempt)
        /\ r_invocations = attempt + (IF r_pc = "returned" THEN 1 ELSE 0)

\* the retry counter goes up by one with every retry step and only then
C29_Step ==
    r_pc = "loop" =>
        /\ attempt' \in {attempt, attempt + 1}
        /\ retry_count' = retry_count + (attempt' - attempt)
        /\ (attempt' = attempt + 1) =>
              (r_pc' = "loop" /\ should_retry(config, last_error')
                 /\ attempt < config.max_attempts - 1)

\* C29: within one execute_with_retry call, between two consecutive
\* invocations the engine performs, in this order, exactly one retry-counter
\* increment, one on_retry callback (if configured) and one sleep of
\* backoff_strategy(i), i the 0-based index of the attempt that just failed;
\* no on_retry, backoff computation or sleep follows the final attempt or an
\* attempt classified as not retryable
C29_RetrySteps == []C29_Inv /\ [][C29_Step]_vars

\* a call with callbacks and three attempts has failed three times: two
\* retry steps of four events each, then on_failure
C29_Witness ==
    /\ r_pc = "returned" /\ config.callbacks /\ config.max_attempts = 3
    /\ r_invocations = 3 /\ Len(r_events) = 9 /\ retry_count = 2
    /\ r_events[8] = [ev |-> "sleep", attempt |-> 1]

\* how often on_failure was called in this call
OnFailureCalls == Len(SelectSeq(r_events, LAMBDA x : x.ev = "on_failure"))

\* on_failure is called only by a call that returned a failure: once, last
\* of all, with the last error
C30_Inv ==
    /\ r_pc = "loop" => OnFailureCalls = 0
    /\ (r_pc = "returned" /\ r_result.success) => OnFailureCalls = 0
    /\ (r_pc = "returned" /\ ~r_result.success) =>
          /\ OnFailureCalls = (IF config.callbacks THEN 1 ELSE 0)
          /\ config.callbacks =>
                r_events[Len(r_events)] = [ev |-> "on_failure", error |-> last_error]
          /\ last_error = ErrorOf(r_last_outcome)

\* the counters of a call: a failure returned adds one to the failure
\* counter, a success returned one to the success counter, and nothing else
\* changes them while the call runs
C30_Step ==
    r_pc = "loop" =>
        /\ (r_pc' = "returned" /\ ~r_result'.success) =>
              (failed_attempts' = failed_attempts + 1
                 /\ successful_attempts' = successful_attempts)
        /\ (r_pc' = "returned" /\ r_result'.success) =>
              (failed_attempts' = failed_attempts
                 /\ successful_attempts' = successful_attempts + 1)
        /\ r_pc' = "loop" =>
              (failed_attempts' = failed_attempts
                 /\ successful_attempts' = successful_attempts)

\* C30: in every execute_with_retry call that returns success=false,
\* on_failure (if configured) is invoked exactly once, with the last error
\* and after the last attempt, and the failure counter goes up by exactly
\* one; in every call that returns a successful Result on_failure is never
\* invoked, the failure counter is unchanged and the success counter goes up
\* by one
C30_FinalFailure == []C30_Inv /\ [][C30_Step]_vars

\* the second call on an executor with callbacks: the first call succeeded,
\* this one failed twice and ended with on_failure
C30_Witness ==
    /\ r_calls = 2 /\ r_pc = "returned" /\ ~r_result.success /\ config.callbacks
    /\ successful_attempts = 1 /\ failed_attempts = 1 /\ r_invocations = 2
    /\ r_events[Len(r_events)].ev = "on_failure"

\* ------------------------------------------------------------------
\* C31: the counters of a RetryExecutor
\* ------------------------------------------------------------------
\* no execute_with_retry call is in progress
BetweenCalls == r_pc \in {"idle", "returned"}

\* C31: after any sequence of completed execute_with_retry and reset_stats
\* calls on one RetryExecutor, total_attempts = successful_attempts +
\* failed_attempts + retry_count, total_attempts is the number of
\* wrapped-executor invocations since the last reset, and successful_attempts
\* + failed_attempts is the number of execute_with_retry calls since the
\* last reset (one successful call on a fresh executor: 1 and 1)
C31_Counters ==
    BetweenCalls =>
        /\ total_attempts = successful_attempts + failed_attempts + retry_count
        /\ total_attempts = r_since.invocations
        /\ successful_attempts + failed_attempts = r_since.calls
        /\ (r_calls = 1 /\ r_since.calls = 1 /\ r_invocations = 1 /\ r_result.success) =>
              (successful_attempts = 1 /\ total_attempts = 1)

\* after a reset, a call that failed twice and then succeeded: three
\* invocations, two retries, one success
C31_Witness ==
    /\ r_pc = "returned" /\ r_calls = 2 /\ r_since = [invocations |-> 3, calls |-> 1]
    /\ total_attempts = 3 /\ retry_count = 2
    /\ successful_attempts = 1 /\ failed_attempts = 0

\* ------------------------------------------------------------------
\* C37: the attempt count in the message of the final failure
\* ------------------------------------------------------------------
\* C37: the attempt count stated in the message of a failed result returned
\* by execute_with_retry equals the number of times the wrapped executor was
\* invoked in that call, also when retrying stopped before max_attempts
\* because the failure was classified as not retryable
C37_AsStated ==
    (r_pc = "returned" /\ ~r_result.success) =>
        r_result.message.n = r_invocations

\* ------------------------------------------------------------------
\* C36: the key handed to key_down / key_up
\* ------------------------------------------------------------------
\* the key the executor is expected to pass for a KEY_DOWN / KEY_UP action
ExpectedKey(action) ==
    IF StrTruthy(action.text) THEN action.text
    ELSE IF action.keys # <<>> THEN action.keys[1]
    ELSE ""

\* C36: for a KEY_DOWN or KEY_UP action the executor passes exactly one key
\* to the controller's key_down / key_up: the action's text when text is
\* set (whether or not a keys list is present), otherwise keys[0] when keys
\* is non-empty, otherwise the empty string
C36_AsStated ==
    (x_pc # "idle" /\ x_action.action_type \in {"key_down", "key_up"}) =>
        /\ Len(x_calls) = 1
        /\ x_calls[1].op = x_action.action_type
        /\ x_calls[1].key = ExpectedKey(x_action)

\* ------------------------------------------------------------------
\* C33: step counter and history of a run
\* ------------------------------------------------------------------
\* h is an initial segment of k
IsPrefix(h, k) == Len(h) <= Len(k) /\ \A i \in DOMAIN h : k[i] = h[i]

C33_Inv ==
    /\ 0 <= Len(history) /\ Len(history) <= current_step
    /\ current_step <= max_steps
    /\ current_step - Len(history) <= 1

\* within a run the history changes only by appending the pair of the
\* current step's action and result; run() starting is the only reset
C33_Step ==
    /\ pc \notin {"idle", "done"} => IsPrefix(history, history')
    /\ (pc \notin {"idle", "done"} /\ history' # history) =>
          /\ history' = Append(history, <<cur_action, cur_result>>)
          /\ Len(history') = current_step /\ current_step' = current_step
    /\ (pc \in {"idle", "done"} /\ history' # history) =>
          (pc' = "loop" /\ history' = <<>> /\ current_step' = 0)

\* C33: in every reachable state of a run 0 <= len(history) <= current_step
\* <= max_steps and current_step - len(history) <= 1; the history grows only
\* by appending the current step's (action, result) pair, and nothing is
\* removed from it or replaced in it during the run
C33_HistoryAndCounter == []C33_Inv /\ [][C33_Step]_vars

\* the third and last step has executed its action and is about to record it
C33_Witness ==
    /\ pc = "callback" /\ current_step = 3 /\ max_steps = 3 /\ Len(history) = 2
    /\ history[1][1] = ClickLabel /\ ~history[1][2].success

\* ------------------------------------------------------------------
\* C32: the element list the executor resolves labels against
\* ------------------------------------------------------------------
\* positions of a step after its detection and up to its execute
AfterDetection == pc \in {"annotate", "state", "think", "execute"}

C32_Inv == pc \in {"think", "execute"} => current_elements = screen_elements

\* every step detects before it thinks; what was detected is published on
\* the way to think and stays as it is until the action has been executed,
\* and execute resolves against it
C32_Step ==
    /\ (pc = "loop" /\ pc' # "loop") => pc' \in {"capture", "done"}
    /\ pc' = "think" =>
          /\ pc \in {"capture", "state", "think"}
          /\ current_step' = current_step
          /\ current_elements' = screen_elements'
    /\ AfterDetection => screen_elements' = screen_elements
    /\ pc \in {"think", "execute"} => current_elements' = current_elements
    /\ (pc = "execute" /\ pc' = "callback") =>
          \E c \in AgentControllers :
              cur_result' = execute(c, cur_action, screen_elements).result

\* C32: in every step the element list is published to the executor after
\* that step's detection and before that step's think, so label resolution
\* for step k's action searches exactly the elements detected in step k,
\* never an earlier step's
C32_ElementsOfThisStep == []C32_Inv /\ [][C32_Step]_vars

\* step 1 detected the labelled elements and its click on the label went
\* through; step 2 detected nothing, and the same click fails
C32_Witness ==
    /\ pc = "callback" /\ current_step = 2 /\ Len(history) = 1
    /\ history[1][1] = ClickLabel /\ history[1][2].success
    /\ cur_action = ClickLabel /\ screen_elements = <<>> /\ ~cur_result.success

\* ------------------------------------------------------------------
\* C35: a cancel() that precedes the run
\* ------------------------------------------------------------------
\* run() returned False although the step limit had not been reached
EndedCancelled == pc = "done" /\ ret = "False" /\ current_step < max_steps

\* during a run the flag is set only if cancel() was called during that
\* run, and only such a run ends as Cancelled
C35_Inv ==
    /\ (pc \notin {"idle", "done"} /\ ~g.cancel_called) => ~cancelled
    /\ EndedCancelled => g.cancel_called

\* the first statements of run() clear the flag, whatever it was
C35_Step == (pc \in {"idle", "done"} /\ pc' = "loop") => ~cancelled'

\* C35: AsyncComputerAgent.run clears the cancellation flag when it starts
\* executing, so a cancel() issued before the run's first statement (left
\* over from an earlier run, or right after the task was created) has no
\* effect on that run; only a cancel() called after run has begun can end
\* it as Cancelled
C35_EarlyCancelIsLost == []C35_Inv /\ [][C35_Step]_vars

\* the flag was left set by the run before; this run, not cancelled itself,
\* has gone through all of its steps to the step limit
C35_Witness ==
    /\ variant = "async" /\ g.runs = 2 /\ g.earlier = "cancelled"
    /\ pc = "done" /\ ret = "False" /\ ~g.cancel_called /\ ~cancelled
    /\ max_steps = 2 /\ current_step = 2 /\ Len(history) = 2

\* ------------------------------------------------------------------
\* capture_screen_state (ai_interface.py, async_agent.py) on a live screen
\* ------------------------------------------------------------------
\* the display shows frames 0, 1, ... as other programs draw on it
MaxFrame == 3
MaxCaptures == 2

\* ControllerBase.screenshot: the PNG bytes of the frame shown at the call
screenshot(frame) == [png |-> frame]

\* base64.b64encode(img_bytes).decode('utf-8'), and its inverse
b64encode(bytes) == [b64 |-> bytes]
b64decode(text) == text.b64

\* ControllerBase.screenshot_base64, called while the display shows `frame`:
\* img_bytes = self.screenshot(region) grabs the display itself
screenshot_base64(frame) == b64encode(screenshot(frame))

\* detector.detect(screenshot_bytes): what is on the frame the bytes show
\* (odd frames show the two labelled elements, even frames nothing)
detect(bytes) == IF bytes.png % 2 = 1 THEN <<E0, E1>> ELSE <<>>

\* annotator.annotate_base64(image_base64, elements): decode, draw the
\* boxes and labels of the elements onto the image, encode
annotate_base64(text, elements) ==
    b64encode([png |-> b64decode(text).png,
               boxes |-> [i \in DOMAIN elements |-> elements[i].label]])

InitCapture ==
    /\ c_screen = 0 /\ c_annotate \in BOOLEAN /\ c_pc = "idle"
    /\ c_bytes = NoBytes /\ c_b64 = NoBase64 /\ c_elements = <<>>
    /\ c_annotated = NoBase64 /\ c_state = NoScreenState
    /\ c_grabs = <<>> /\ c_captures = 0
    /\ ExecIdle /\ RetryIdle /\ AgentIdle /\ PointIdle /\ BackoffIdle /\ DecoIdle

\* another program draws: the display goes on to the next frame
ScreenChanges ==
    /\ c_screen < MaxFrame
    /\ c_screen' = c_screen + 1
    /\ UNCHANGED <<c_annotate, c_pc, c_bytes, c_b64, c_elements, c_annotated, c_state,
                   c_grabs, c_captures, exec_vars, retry_vars, agent_vars, point_vars,
                   backoff_vars, deco_vars>>

\* step() calls capture_screen_state
CaptureEnter ==
    /\ c_pc \in {"idle", "returned"}
    /\ c_captures < MaxCaptures
    /\ c_captures' = c_captures + 1
    /\ c_pc' = "screenshot"
    /\ c_bytes' = NoBytes /\ c_b64' = NoBase64 /\ c_elements' = <<>>
    /\ c_annotated' = NoBase64 /\ c_grabs' = <<>>
    /\ UNCHANGED <<c_screen, c_annotate, c_state, exec_vars, retry_vars, agent_vars,
                   point_vars, backoff_vars, deco_vars>>

\* screenshot_bytes = self.controller.screenshot()
CaptureScreenshot ==
    /\ c_pc = "screenshot"
    /\ c_bytes' = screenshot(c_screen)
    /\ c_grabs' = Append(c_grabs, c_screen)
    /\ c_pc' = "screenshot_base64"
    /\ UNCHANGED <<c_screen, c_annotate, c_b64, c_elements, c_annotated, c_state,
                   c_captures, exec_vars, retry_vars, agent_vars, point_vars,
                   backoff_vars, deco_vars>>

\* screenshot_base64 = self.controller.screenshot_base64()
CaptureScreenshotBase64 ==
    /\ c_pc = "screenshot_base64"
    /\ c_b64' = screenshot_base64(c_screen)
    /\ c_grabs' = Append(c_grabs, c_screen)
    /\ c_pc' = "detect"
    /\ UNCHANGED <<c_screen, c_annotate, c_bytes, c_elements, c_annotated, c_state,
                   c_captures, exec_vars, retry_vars, agent_vars, point_vars,
                   backoff_vars, deco_vars>>

\* elements = self.detector.detect(screenshot_bytes)
CaptureDetect ==
    /\ c_pc = "detect"
    /\ c_elements' = detect(c_bytes)
    /\ c_pc' = IF c_annotate /\ c_elements' # <<>> THEN "annotate" ELSE "state"
    /\ UNCHANGED <<c_screen, c_annotate, c_bytes, c_b64, c_annotated, c_state, c_grabs,
                   c_captures, exec_vars, retry_vars, agent_vars, point_vars,
                   backoff_vars, deco_vars>>

\* annotated_base64, label_map = self.annotator.annotate_base64(screenshot_base64, elements)
CaptureAnnotate ==
    /\ c_pc = "annotate"
    /\ c_annotated' = annotate_base64(c_b64, c_elements)
    /\ c_pc' = "state"
    /\ UNCHANGED <<c_screen, c_annotate, c_bytes, c_b64, c_elements, c_state, c_grabs,
                   c_captures, exec_vars, retry_vars, agent_vars, point_vars,
                   backoff_vars, deco_vars>>

\* return ScreenState(screenshot_base64=..., annotated_screenshot_base64=...,
\*                    elements=..., ...): what the brain is handed
CaptureReturn ==
    /\ c_pc = "state"
    /\ c_state' = [screenshot_base64 |-> c_b64,
                   annotated_screenshot_base64 |-> c_annotated,
                   elements |-> c_elements]
    /\ c_pc' = "returned"
    /\ UNCHANGED <<c_screen, c_annotate, c_bytes, c_b64, c_elements, c_annotated,
                   c_grabs, c_captures, exec_vars, retry_vars, agent_vars, point_vars,
                   backoff_vars, deco_vars>>

NextCapture ==
    \/ ScreenChanges
    \/ CaptureEnter
    \/ CaptureScreenshot
    \/ CaptureScreenshotBase64
    \/ CaptureDetect
    \/ CaptureAnnotate
    \/ CaptureReturn

SpecCapture == InitCapture /\ [][NextCapture]_vars

\* ------------------------------------------------------------------
\* C34: the ScreenState as one snapshot
\* ------------------------------------------------------------------
\* C34: every ScreenState is one consistent snapshot: the screenshot
\* encoding handed to the brain encodes the very frame on which the detector
\* computed the elements (one capture per step), even if the screen changes
\* while the capture is in progress
C34_AsStated ==
    c_pc = "returned" =>
        /\ b64decode(c_state.screenshot_base64) = c_bytes
        /\ c_state.elements = detect(b64decode(c_state.screenshot_base64))
        /\ Len(c_grabs) = 1

====
